---- MODULE Spec2Model ----
\* Model of github_summary: the orchestrator GitHubSummaryApp.run, the
\* repository processor _process_repository and the incremental state store
\* (last_run_manager), as a state machine with one action per step between
\* two suspension points of the asyncio code.
EXTENDS Integers, Sequences, FiniteSets, TLC

\* ---------------------------------------------------------------- bounds
NumRepos == 3      \* repositories in the configuration
MaxLimit == 2      \* largest semaphore size tried
MaxClock == 2      \* last instant of the wall clock
MaxRuns == 2       \* orchestrator runs in one behaviour (SpecRuns)
MaxTracked == 2    \* repositories configured in SpecRuns
NumCallers == 2    \* concurrent set_multiple_last_run_times calls (SpecStore)
MaxPages == 2      \* page ceilings tried below the default (SpecPaginate)
MaxPageSize == 1
MaxSetFields == 1
MaxCommits == 2
MaxItems == 1   \* nodes in one page (SpecPaginate)
NumTasks == 2      \* repository tasks calling one AsyncLLMClient (SpecLLM)
MaxRetries == 2    \* largest [llm].retries tried (SpecLLM)
MaxEntries == 2    \* largest SummaryCache.max_entries tried (SpecCache)
MaxStamps == 2     \* timestamps of the summaries offered to the cache (SpecCache)
MaxBatch == 2      \* summaries in one add_batch or save_all call (SpecCache)

\* ------------------------------------------------------- program constants
fallback_lookback_days == 7
DEFAULT_MAX_ENTRIES == 100
default_max_pages == 5

\* ------------------------------------------------------------ value space
Repos == 1..NumRepos
Callers == 1..NumCallers
UnknownRepo == NumRepos + 1         \* a name that is not in the configuration
DataTypes == {"commits", "pull_requests", "issues", "discussions"}
None == << >>                       \* Python None
Some(t) == << t >>                  \* a datetime
EmptyDict == [k \in {} |-> 0]       \* Python {}
ConfigPath == "config.toml"
SummaryText == "summary"

Min(a, b) == IF a < b THEN a ELSE b

\* str values: an ISO-8601 text, any other text, or no entry at all
Isoformat(t) == <<"iso", t>>
Garbage == <<"text", 0>>
Absent == <<"absent", 0>>
NonText == <<"number", 0>>          \* a JSON value that is not a string

\* datetime.fromisoformat(s).astimezone(UTC): a datetime, or ValueError
Fromisoformat(s) == IF s[1] = "iso" THEN [ok |-> TRUE, value |-> s[2]]
                                    ELSE [ok |-> FALSE, value |-> 0]

\* _get_run_key(config_path, repo_name); repo_name is None or Some(name)
GetRunKey(config_path, repo_name) ==
    IF repo_name # None THEN <<config_path, repo_name[1]>> ELSE <<config_path>>

StoreKeys == {GetRunKey(ConfigPath, None)} \cup {GetRunKey(ConfigPath, Some(r)) : r \in Repos}

\* get_last_run_time reading the entry of the configuration for every repository
GetLastRunTimeUnqualified(data, config_path, repo_name) ==
    LET run_key == GetRunKey(config_path, None) IN
    IF data[run_key] # Absent
    THEN IF Fromisoformat(data[run_key]).ok
         THEN Some(Fromisoformat(data[run_key]).value)
         ELSE None
    ELSE None

\* get_last_run_time(config_path, repo_name) on the file content data
GetLastRunTime(data, config_path, repo_name) ==
    LET run_key == GetRunKey(config_path, repo_name) IN
    IF data[run_key] # Absent
    THEN IF Fromisoformat(data[run_key]).ok
         THEN Some(Fromisoformat(data[run_key]).value)
         ELSE None
    ELSE None

\* set_multiple_last_run_times writing the updates alone
SetMultipleReplace(data, updates) ==
    [k \in DOMAIN data |-> IF k \in DOMAIN updates THEN Isoformat(updates[k]) ELSE Absent]

\* set_multiple_last_run_times(updates): read, override, write back
SetMultipleLastRunTimes(data, updates) ==
    [k \in DOMAIN data |-> IF k \in DOMAIN updates THEN Isoformat(updates[k]) ELSE data[k]]

\* int(env_concurrent): an integer text parses, any other text is a ValueError
EnvUnset == << >>
EnvText == <<"text">>
EnvInt(n) == <<"int", n>>

\* _get_max_concurrent_repos with the environment variable read first
GetMaxConcurrentReposEnvFirst(override, env_concurrent, configured) ==
    IF env_concurrent # EnvUnset /\ env_concurrent[1] = "int" THEN env_concurrent[2]
    ELSE IF override # None THEN override[1]
    ELSE configured

\* GitHubSummaryApp._get_max_concurrent_repos(override)
GetMaxConcurrentRepos(override, env_concurrent, configured) ==
    IF override # None THEN override[1]
    ELSE IF env_concurrent # EnvUnset /\ env_concurrent[1] = "int" THEN env_concurrent[2]
    ELSE configured

\* ------------------------------------------------------- summary cache
\* sorted(summaries, key=timestamp, reverse=True): stable, newest first
RECURSIVE InsertByTimestamp(_, _)
InsertByTimestamp(sorted, e) ==
    IF sorted = << >> THEN << e >>
    ELSE IF Head(sorted).timestamp >= e.timestamp
         THEN << Head(sorted) >> \o InsertByTimestamp(Tail(sorted), e)
         ELSE << e >> \o sorted

RECURSIVE SortNewestFirst(_)
SortNewestFirst(s) ==
    IF s = << >> THEN << >>
    ELSE InsertByTimestamp(SortNewestFirst(SubSeq(s, 1, Len(s) - 1)), s[Len(s)])

\* save_all keeping the order in which the summaries were offered
SaveAllUnsorted(summaries, max_entries) ==
    SubSeq(summaries, 1, Min(Len(summaries), max_entries))

\* SummaryCache.save_all(summaries)
SaveAll(summaries, max_entries) ==
    LET sorted_summaries == SortNewestFirst(summaries) IN
    SubSeq(sorted_summaries, 1, Min(Len(sorted_summaries), max_entries))

\* add_batch without existing_ids.add(summary["id"])
RECURSIVE UniqueNewUnrecorded(_, _)
UniqueNewUnrecorded(new_summaries, existing_ids) ==
    IF new_summaries = << >> THEN << >>
    ELSE IF Head(new_summaries).id \in existing_ids
         THEN UniqueNewUnrecorded(Tail(new_summaries), existing_ids)
         ELSE << Head(new_summaries) >> \o UniqueNewUnrecorded(Tail(new_summaries), existing_ids)

RECURSIVE UniqueNew(_, _)
UniqueNew(new_summaries, existing_ids) ==
    IF new_summaries = << >> THEN << >>
    ELSE IF Head(new_summaries).id \in existing_ids
         THEN UniqueNew(Tail(new_summaries), existing_ids)
         ELSE << Head(new_summaries) >>
              \o UniqueNew(Tail(new_summaries), existing_ids \cup {Head(new_summaries).id})

\* SummaryCache.add_batch(new_summaries): the cache content afterwards
AddBatch(existing, new_summaries, max_entries) ==
    LET unique_new == UniqueNew(new_summaries, {existing[j].id : j \in DOMAIN existing}) IN
    IF unique_new = << >> THEN existing
    ELSE SaveAll(existing \o unique_new, max_entries)

\* ---------------------------------------------------------------- state
VARIABLES
    config,            \* Config: since_last_run, rss, repositories, include_*
    store,             \* content of log/last_run_times.json
    cache,             \* content of cache/summary_cache.json
    feed,              \* entries of the generated rss.xml
    clock,             \* datetime.now(UTC)
    runs,              \* runs started so far
    max_runs,          \* runs this behaviour may start
    phase,             \* position of GitHubSummaryApp.run
    args,              \* arguments and services of the current run
    session,           \* GitHubService.session
    sem,               \* asyncio.Semaphore(max_concurrent_repos)._value
    pc,                \* position of each process_with_semaphore task
    since,             \* since boundary resolved by each task
    fallback_since,    \* local of _calculate_since_time_for_repo
    repo_data,         \* local of _process_repository
    summary,           \* local of _process_repository
    results,           \* results of asyncio.gather, by repository
    last_run_updates,  \* local of run
    cache_entries,     \* local of run
    set_calls,         \* set_multiple_last_run_times calls of the current run
    fetch_errors,      \* data types whose fetch raised, by repository
    requests,          \* data types asked from the remote API, by repository
    hist,              \* the store before this run, and what the previous run did
    lock,              \* last_run_manager._async_lock: its holder
    caller,            \* position and locals of each set_multiple_last_run_times call
    got,               \* the outcome of the last get_last_run_time call
    pg,                \* locals of a _paginate_graphql call, and what it sent and received
    resolved,          \* inputs and results of the semaphore size resolution
    merging,           \* filter specs of one repository through validation and merging
    query,             \* one get_* call of GitHubService: its inputs and its result
    client,            \* one AsyncLLMClient, the repository semaphore and the tasks calling it
    sc,                \* cache/summary_cache.json and the last SummaryCache call on it
    jobs               \* scheduled jobs running GitHubSummaryApp.run side by side

vars == <<config, store, cache, feed, clock, runs, max_runs, phase, args, session, sem,
          pc, since, fallback_since, repo_data, summary, results, last_run_updates,
          cache_entries, set_calls, fetch_errors, requests, hist, lock, caller, got, pg, resolved,
          merging, query, client, sc, jobs>>

\* the state of the services modelled on their own
serviceVars == <<client, sc, jobs>>

\* the state of the filter engine calls modelled on their own
engineVars == <<merging, query>>

\* the state of the library calls modelled on their own
libVars == <<lock, caller, got, pg, resolved, engineVars, serviceVars>>

taskVars == <<pc, since, fallback_since, repo_data, summary, results, sem>>

\* ------------------------------------------------------- configuration
\* RepoConfig.include_* of each configured repository
IncludeOf(r) ==
    CASE r % 3 = 1 -> {"commits", "pull_requests"}
      [] r % 3 = 2 -> DataTypes
      [] OTHER -> {}

\* a configuration that enables no data type
IncludeNone(r) == {}

Configs(tracked, since_last_run_values, rss_values, include) ==
    [since_last_run : since_last_run_values, rss : rss_values,
     repositories : {[k \in 1..tracked |-> k]},
     include : {include}]

\* the file as earlier runs and hand edits may have left it: an entry of
\* the first repository, and the entry of the configuration itself
Stores(repo_values, global_values) ==
    {s \in [StoreKeys -> {Absent, Garbage, NonText, Isoformat(-1), Isoformat(-2)}] :
        /\ s[GetRunKey(ConfigPath, None)] \in global_values
        /\ s[GetRunKey(ConfigPath, Some(1))] \in repo_values
        /\ \A r \in Repos : r > 1 => s[GetRunKey(ConfigPath, Some(r))] = Absent}

\* a file that json.load cannot decode
Corrupt == <<"corrupt">>
EmptyStore == [k \in StoreKeys |-> Absent]

\* _read_last_run_times: the mapping in the file, {} when it does not decode
ReadLastRunTimes(file) == IF file = Corrupt THEN EmptyStore ELSE file

\* no library call in progress
CallerIdle == [pc |-> "idle", updates |-> EmptyDict, data |-> EmptyDict, writes |-> 0,
               waited |-> FALSE]
GotNothing == [run_key |-> << >>, stored |-> Absent, outcome |-> "none", value |-> None,
               held |-> Absent, overlapped |-> FALSE]
PgIdle == [pc |-> "idle", max_pages |-> 0, i |-> 0, has_next_page |-> TRUE, cursor |-> None,
           all_nodes |-> << >>, requests |-> << >>, pages |-> << >>, warned |-> FALSE,
           result |-> None]
NotResolved == [by |-> "none", override |-> None, env |-> EnvUnset, configured |-> 0, value |-> 0]

NotMerging == [pc |-> "none"]
NoQuery == [pc |-> "none"]
NoClient == [pc |-> "none"]
NoCacheCall == [pc |-> "none"]
NoJobs == [pc |-> "none"]

NoHist == [store_before |-> << >>, prev_since |-> << >>, prev_failed |-> {}]

InitWith(configs, nruns, start, stores) ==
    /\ config \in configs
    /\ store \in stores
    /\ cache = << >>
    /\ feed = << >>
    /\ clock = start
    /\ runs = 0
    /\ max_runs = nruns
    /\ phase = "idle"
    /\ args = [max_concurrent_repos |-> 0, summarizer |-> FALSE, save_markdown |-> FALSE,
               save_json |-> FALSE, repositories |-> << >>]
    /\ session = "none"
    /\ sem = 0
    /\ pc = [r \in Repos |-> "none"]
    /\ since = [r \in Repos |-> None]
    /\ fallback_since = [r \in Repos |-> None]
    /\ repo_data = [r \in Repos |-> EmptyDict]
    /\ summary = [r \in Repos |-> ""]
    /\ results = [r \in {} |-> 0]
    /\ last_run_updates = [k \in {} |-> 0]
    /\ cache_entries = << >>
    /\ set_calls = 0
    /\ fetch_errors = [r \in Repos |-> {}]
    /\ requests = [r \in Repos |-> {}]
    /\ hist = NoHist
    /\ lock = None
    /\ caller = [c \in Callers |-> CallerIdle]
    /\ got = GotNothing
    /\ pg = PgIdle
    /\ merging = NotMerging
    /\ query = NoQuery
    /\ client = NoClient
    /\ sc = NoCacheCall
    /\ jobs = NoJobs
    /\ resolved = NotResolved

\* one run over every repository, at one instant
Init == InitWith(Configs(NumRepos, BOOLEAN, BOOLEAN, [r \in Repos |-> IncludeOf(r)]), 1, MaxClock,
                 Stores({Absent}, {Absent}) \cup Stores({Isoformat(-1)}, {Isoformat(-2)}))

\* ------------------------------------------------- GitHubSummaryApp.run
Overrides == {None} \cup {Some(n) : n \in -1..MaxLimit}
EnvValues == {EnvUnset, EnvText} \cup {EnvInt(n) : n \in -1..MaxLimit}
ConfiguredLimits == 1..MaxLimit
StartupOutcomes == {"ok", "config_error", "no_token", "service_error"}
SaveChoices == {<<FALSE, FALSE>>, <<TRUE, TRUE>>}

\* datetime.now(UTC) at the start of a run: time passes between two runs,
\* and the clock never runs backwards
Now == clock..Min(clock + 1, MaxClock)

Range(seq) == {seq[j] : j \in DOMAIN seq}

RECURSIVE Ascending(_)
Ascending(S) ==
    IF S = {} THEN << >>
    ELSE LET m == CHOOSE x \in S : \A y \in S : x <= y IN << m >> \o Ascending(S \ {m})

\* _filter_repositories(repo_name): the configured repositories of that name
FilterRepositories(repositories, repo_name) ==
    SelectSeq(repositories, LAMBDA r : r = repo_name)

\* the repositories variable of run, or ValueError for an unknown name
SelectRepositories(repositories, repo_names) ==
    IF repo_names # None
    THEN IF FilterRepositories(repositories, repo_names[1]) = << >>
         THEN [ok |-> FALSE, value |-> << >>]
         ELSE [ok |-> TRUE, value |-> FilterRepositories(repositories, repo_names[1])]
    ELSE [ok |-> TRUE, value |-> repositories]

Selected == Range(args.repositories)
Failed == {r \in DOMAIN results : results[r].completion_time = None}

ResetRun ==
    /\ since' = [r \in Repos |-> None]
    /\ fallback_since' = [r \in Repos |-> None]
    /\ repo_data' = [r \in Repos |-> EmptyDict]
    /\ summary' = [r \in Repos |-> ""]
    /\ results' = [r \in {} |-> 0]
    /\ last_run_updates' = [k \in {} |-> 0]
    /\ cache_entries' = << >>
    /\ set_calls' = 0
    /\ fetch_errors' = [r \in Repos |-> {}]
    /\ requests' = [r \in Repos |-> {}]
    /\ hist' = [store_before |-> store,
                prev_since |-> [r \in DOMAIN results |-> since[r]],
                prev_failed |-> Failed]

\* leaving async with self while the session stays as it is
AExitLeavesOpen(sess) == sess

\* GitHubSummaryApp.__aexit__ and GitHubService.__aexit__: the session of the
\* service, when there is one, is closed
AExit(sess) == IF sess = "open" THEN "closed" ELSE sess

\* the repo_names argument: None, a configured repository or an unknown one
RepoNames == {None, Some(1), Some(UnknownRepo)}

\* every value _get_max_concurrent_repos can return
ResolvedLimits ==
    {GetMaxConcurrentRepos(override, env, configured) :
        override \in Overrides, env \in EnvValues, configured \in ConfiguredLimits}

\* the summarizer of a run: none without [llm] or with skip_summary
Summarizers == {llm /\ ~skip_summary : llm \in BOOLEAN, skip_summary \in BOOLEAN}

\* run, up to the creation of the tasks (app.py 367-412), its arguments and
\* environment drawn from the given sets
run_start(limits, summarizers, saves, startups, names) ==
    /\ phase \in {"idle", "returned", "exited"}
    /\ runs < max_runs
    /\ \E limit \in limits,
          summarizer \in summarizers,
          save \in saves,
          startup \in startups,
          repo_names \in names,
          now \in Now :
        LET repositories == SelectRepositories(config.repositories, repo_names)
            ok == startup = "ok" /\ repositories.ok /\ limit >= 0
        IN
        /\ clock' = now
        /\ runs' = runs + 1
        /\ args' = [max_concurrent_repos |-> limit,
                    summarizer |-> summarizer,
                    save_markdown |-> save[1],
                    save_json |-> save[2],
                    repositories |-> IF ok THEN repositories.value ELSE << >>]
        /\ phase' = IF ok THEN "gather" ELSE "exited"
        /\ session' = IF startup # "ok" THEN "none" ELSE IF ok THEN "open" ELSE AExit("open")
        /\ sem' = IF ok THEN limit ELSE 0
        /\ pc' = [r \in Repos |-> IF ok /\ r \in Range(repositories.value)
                                  THEN "pending" ELSE "none"]
        /\ ResetRun
    /\ UNCHANGED <<libVars, config, store, cache, feed, max_runs>>

runVars == <<config, store, cache, feed, runs, max_runs, phase, args, session,
             last_run_updates, cache_entries, set_calls, hist, libVars>>

\* what the except path of _process_repository returns
FailureResult(r) ==
    [repo_name |-> r, completion_time |-> None, summary |-> "", repo_data |-> EmptyDict]

\* the except path taken with the dataset and the summary built so far
ProcessFailedPartial(r) ==
    /\ results' = (r :> [repo_name |-> r, completion_time |-> None,
                         summary |-> summary[r], repo_data |-> repo_data[r]]) @@ results
    /\ pc' = [pc EXCEPT ![r] = "done"]
    /\ sem' = sem + 1
    /\ fallback_since' = [fallback_since EXCEPT ![r] = None]
    /\ repo_data' = [repo_data EXCEPT ![r] = EmptyDict]
    /\ summary' = [summary EXCEPT ![r] = ""]

\* the except path of _process_repository, and the release of the permit
ProcessFailed(r) ==
    /\ results' = (r :> FailureResult(r)) @@ results
    /\ pc' = [pc EXCEPT ![r] = "done"]
    /\ sem' = sem + 1
    /\ fallback_since' = [fallback_since EXCEPT ![r] = None]
    /\ repo_data' = [repo_data EXCEPT ![r] = EmptyDict]
    /\ summary' = [summary EXCEPT ![r] = ""]

\* process_with_semaphore entered without waiting for a permit
process_with_semaphore_unbounded(r) ==
    /\ phase = "gather"
    /\ pc[r] = "pending"
    /\ \A q \in Repos : pc[q] = "pending" => r <= q
    /\ IF config.since_last_run
       THEN /\ pc' = [pc EXCEPT ![r] = "since_repo"]
            /\ fallback_since' = [fallback_since EXCEPT ![r] = Some(clock - fallback_lookback_days)]
            /\ UNCHANGED since
       ELSE /\ pc' = [pc EXCEPT ![r] = "fetch"]
            /\ since' = [since EXCEPT ![r] = Some(clock - fallback_lookback_days)]
            /\ UNCHANGED fallback_since
    /\ sem' = sem - 1
    /\ UNCHANGED <<runVars, clock, repo_data, summary, results, fetch_errors, requests>>

\* process_with_semaphore: the permit is acquired in task order, and
\* _calculate_since_time_for_repo computes its fallback from datetime.now
process_with_semaphore(r) ==
    /\ phase = "gather"
    /\ pc[r] = "pending"
    /\ sem > 0
    /\ \A q \in Repos : pc[q] = "pending" => r <= q
    /\ IF config.since_last_run
       THEN /\ pc' = [pc EXCEPT ![r] = "since_repo"]
            /\ fallback_since' = [fallback_since EXCEPT ![r] = Some(clock - fallback_lookback_days)]
            /\ UNCHANGED since
       ELSE /\ pc' = [pc EXCEPT ![r] = "fetch"]
            /\ since' = [since EXCEPT ![r] = Some(clock - fallback_lookback_days)]
            /\ UNCHANGED fallback_since
    /\ sem' = sem - 1
    /\ UNCHANGED <<runVars, clock, repo_data, summary, results, fetch_errors, requests>>

\* _calculate_since_time_for_repo: the per-repository entry
calculate_since_repo(r) ==
    /\ phase = "gather"
    /\ pc[r] = "since_repo"
    /\ \/ ProcessFailed(r) /\ UNCHANGED since
       \/ LET last_run_time == GetLastRunTime(store, ConfigPath, Some(r)) IN
          /\ IF last_run_time # None
             THEN /\ since' = [since EXCEPT ![r] = last_run_time]
                  /\ pc' = [pc EXCEPT ![r] = "fetch"]
                  /\ fallback_since' = [fallback_since EXCEPT ![r] = None]
             ELSE /\ pc' = [pc EXCEPT ![r] = "since_global"]
                  /\ UNCHANGED <<since, fallback_since>>
          /\ UNCHANGED <<repo_data, summary, results, sem>>
    /\ UNCHANGED <<runVars, clock, fetch_errors, requests>>

\* _calculate_since_time_for_repo: the entry of the configuration, then the fallback
calculate_since_global(r) ==
    /\ phase = "gather"
    /\ pc[r] = "since_global"
    /\ \/ ProcessFailed(r) /\ UNCHANGED since
       \/ LET global_last_run_time == GetLastRunTime(store, ConfigPath, None) IN
          /\ since' = [since EXCEPT ![r] = IF global_last_run_time # None
                                           THEN global_last_run_time
                                           ELSE fallback_since[r]]
          /\ pc' = [pc EXCEPT ![r] = "fetch"]
          /\ fallback_since' = [fallback_since EXCEPT ![r] = None]
          /\ UNCHANGED <<repo_data, summary, results, sem>>
    /\ UNCHANGED <<runVars, clock, fetch_errors, requests>>

\* what get_commits, get_pull_requests, ... return for a repository
Fetched(r, key) == << <<r, key>> >>

\* _fetch_repo_data where one fetch that raises empties every list
FetchRepoDataAbort(r, include, raised) ==
    [key \in DataTypes \cup {"repo"} |->
        IF key = "repo" THEN << r >>
        ELSE IF key \in include /\ raised = {} THEN Fetched(r, key) ELSE << >>]

\* _fetch_repo_data: raised is the set of enabled data types whose fetch raised
FetchRepoData(r, include, raised) ==
    [key \in DataTypes \cup {"repo"} |->
        IF key = "repo" THEN << r >>
        ELSE IF key \in include /\ key \notin raised THEN Fetched(r, key) ELSE << >>]

\* the results of asyncio.gather(return_exceptions=True): no fetch raises,
\* the commits fetch alone does, or all do
FetchOutcomes(include) == {{}, {"commits"} \cap include, include}

\* _fetch_repo_data creating a task for every data type
TasksOfAll(include) == DataTypes

\* _fetch_repo_data: the keys of tasks, one for each enabled data type
TasksOf(include) == {key \in DataTypes : key \in include}

\* _fetch_repo_data where a fetch that raises reaches the except path
fetch_repo_data_raises(r) ==
    /\ phase = "gather"
    /\ pc[r] = "fetch"
    /\ LET tasks == TasksOf(config.include[r]) IN
       /\ requests' = [requests EXCEPT ![r] = tasks]
       /\ \E raised \in FetchOutcomes(tasks) :
           /\ fetch_errors' = [fetch_errors EXCEPT ![r] = raised]
           /\ IF raised # {}
              THEN ProcessFailed(r)
              ELSE /\ repo_data' = [repo_data EXCEPT ![r] = FetchRepoData(r, tasks, raised)]
                   /\ pc' = [pc EXCEPT ![r] = "summarize"]
                   /\ UNCHANGED <<fallback_since, summary, results, sem>>
    /\ UNCHANGED <<runVars, clock, since>>

fetch_repo_data(r) ==
    /\ phase = "gather"
    /\ pc[r] = "fetch"
    /\ LET tasks == TasksOf(config.include[r]) IN
       /\ requests' = [requests EXCEPT ![r] = tasks]
       /\ \E raised \in FetchOutcomes(tasks) :
           /\ repo_data' = [repo_data EXCEPT ![r] = FetchRepoData(r, tasks, raised)]
           /\ fetch_errors' = [fetch_errors EXCEPT ![r] = raised]
    /\ pc' = [pc EXCEPT ![r] = "summarize"]
    /\ UNCHANGED <<runVars, clock, since, fallback_since, summary, results, sem>>

\* _generate_summary where a summarizer that raises leaves the dataset in the result
generate_summary_partial(r) ==
    /\ phase = "gather"
    /\ pc[r] = "summarize"
    /\ IF ~args.summarizer
       THEN /\ summary' = [summary EXCEPT ![r] = ""]
            /\ pc' = [pc EXCEPT ![r] = "save"]
            /\ UNCHANGED <<repo_data, results, sem, fallback_since>>
       ELSE \/ ProcessFailedPartial(r)
            \/ /\ summary' = [summary EXCEPT ![r] = SummaryText]
               /\ pc' = [pc EXCEPT ![r] = "save"]
               /\ UNCHANGED <<repo_data, results, sem, fallback_since>>
    /\ UNCHANGED <<runVars, clock, since, fetch_errors, requests>>

\* _generate_summary
generate_summary(r) ==
    /\ phase = "gather"
    /\ pc[r] = "summarize"
    /\ IF ~args.summarizer
       THEN /\ summary' = [summary EXCEPT ![r] = ""]
            /\ pc' = [pc EXCEPT ![r] = "save"]
            /\ UNCHANGED <<repo_data, results, sem, fallback_since>>
       ELSE \/ ProcessFailed(r)
            \/ /\ summary' = [summary EXCEPT ![r] = SummaryText]
               /\ pc' = [pc EXCEPT ![r] = "save"]
               /\ UNCHANGED <<repo_data, results, sem, fallback_since>>
    /\ UNCHANGED <<runVars, clock, since, fetch_errors, requests>>

\* the return of _process_repository with a completion time in every run
save_outputs_timed(r) ==
    /\ phase = "gather"
    /\ pc[r] = "save"
    /\ \/ /\ (args.save_markdown /\ summary[r] # "") \/ args.save_json
          /\ ProcessFailed(r)
       \/ /\ results' = (r :> [repo_name |-> r, completion_time |-> Some(clock),
                               summary |-> summary[r], repo_data |-> repo_data[r]]) @@ results
          /\ pc' = [pc EXCEPT ![r] = "done"]
          /\ sem' = sem + 1
          /\ repo_data' = [repo_data EXCEPT ![r] = EmptyDict]
          /\ summary' = [summary EXCEPT ![r] = ""]
          /\ UNCHANGED fallback_since
    /\ UNCHANGED <<runVars, clock, since, fetch_errors, requests>>

\* _save_markdown_summary, _save_json_report, the completion time and the return
save_outputs(r) ==
    /\ phase = "gather"
    /\ pc[r] = "save"
    /\ \/ /\ (args.save_markdown /\ summary[r] # "") \/ args.save_json
          /\ ProcessFailed(r)
       \/ LET completion_time == IF config.since_last_run THEN Some(clock) ELSE None IN
          /\ results' = (r :> [repo_name |-> r, completion_time |-> completion_time,
                               summary |-> summary[r], repo_data |-> repo_data[r]]) @@ results
          /\ pc' = [pc EXCEPT ![r] = "done"]
          /\ sem' = sem + 1
          /\ repo_data' = [repo_data EXCEPT ![r] = EmptyDict]
          /\ summary' = [summary EXCEPT ![r] = ""]
          /\ UNCHANGED fallback_since
    /\ UNCHANGED <<runVars, clock, since, fetch_errors, requests>>

\* ------------------------------------------- run, after asyncio.gather
Completed == {r \in DOMAIN results : results[r].completion_time # None}

\* last_run_updates with an entry for every result, failed ones included
LastRunUpdatesAll(res) ==
    [k \in {GetRunKey(ConfigPath, Some(r)) : r \in DOMAIN res} |->
        IF res[k[2]].completion_time # None THEN res[k[2]].completion_time[1] ELSE clock]

\* last_run_updates without the repositories that had a fetch raise
LastRunUpdatesFetched(res) ==
    LET done == {r \in DOMAIN res : res[r].completion_time # None /\ fetch_errors[r] = {}} IN
    [k \in {GetRunKey(ConfigPath, Some(r)) : r \in done} |-> res[k[2]].completion_time[1]]

\* the loop over results (app.py 416-442): last_run_updates
LastRunUpdates(res) ==
    LET done == {r \in DOMAIN res : res[r].completion_time # None} IN
    [k \in {GetRunKey(ConfigPath, Some(r)) : r \in done} |-> res[k[2]].completion_time[1]]

\* the results that get a cache entry
Cached(res, rss) == {r \in DOMAIN res : res[r].summary # "" /\ rss}

\* the loop over results: cache_entries, in the order of repositories
CacheEntries(res, rss) ==
    LET order == Ascending(Cached(res, rss)) IN
    [j \in DOMAIN order |->
        [id |-> <<order[j], Isoformat(res[order[j]].completion_time[1])>>,
         content |-> res[order[j]].summary,
         timestamp |-> res[order[j]].completion_time[1]]]

AllSettled == \A r \in Selected : pc[r] = "done"

\* run leaves through typer.Exit(1); async with self closes the session
RunExits ==
    /\ phase' = "exited"
    /\ session' = AExit(session)

\* the results sorted into the two batches without waiting for every task
gather_returns_early ==
    /\ phase = "gather"
    /\ IF \E r \in Cached(results, config.rss) : results[r].completion_time = None
       THEN /\ RunExits
            /\ UNCHANGED <<last_run_updates, cache_entries>>
       ELSE /\ last_run_updates' = LastRunUpdates(results)
            /\ cache_entries' = CacheEntries(results, config.rss)
            /\ phase' = "cache"
            /\ UNCHANGED session
    /\ UNCHANGED <<libVars, config, store, cache, feed, clock, runs, max_runs, args, set_calls,
                   hist, taskVars, fetch_errors, requests>>

\* asyncio.gather returns, and the results are sorted into the two batches
gather_returns ==
    /\ phase = "gather"
    /\ AllSettled
    /\ IF \E r \in Cached(results, config.rss) : results[r].completion_time = None
       THEN \* completion_time.isoformat() on None: AttributeError
            /\ RunExits
            /\ UNCHANGED <<last_run_updates, cache_entries>>
       ELSE /\ last_run_updates' = LastRunUpdates(results)
            /\ cache_entries' = CacheEntries(results, config.rss)
            /\ phase' = "cache"
            /\ UNCHANGED session
    /\ UNCHANGED <<libVars, config, store, cache, feed, clock, runs, max_runs, args, set_calls,
                   hist, taskVars, fetch_errors, requests>>

\* add_summaries_to_cache(cache_entries)
add_summaries_to_cache ==
    /\ phase = "cache"
    /\ IF cache_entries # << >>
       THEN \/ RunExits /\ UNCHANGED cache
            \/ /\ cache' = AddBatch(cache, cache_entries, DEFAULT_MAX_ENTRIES)
               /\ phase' = "rss"
               /\ UNCHANGED session
       ELSE /\ phase' = "rss"
            /\ UNCHANGED <<cache, session>>
    /\ UNCHANGED <<libVars, config, store, feed, clock, runs, max_runs, args, set_calls,
                   last_run_updates, cache_entries, hist, taskVars, fetch_errors, requests>>

\* generate_feed_from_summaries(rss, output_dir, all_summaries)
GenerateFeedFromSummaries(all_summaries) == [j \in DOMAIN all_summaries |-> all_summaries[j].id]

\* the feed left as it is, and the run on its way to the state commit
regenerate_rss_skipped ==
    /\ phase = "rss"
    /\ phase' = "commit"
    /\ UNCHANGED <<libVars, config, store, cache, feed, session, clock, runs, max_runs, args,
                   set_calls, last_run_updates, cache_entries, hist, taskVars, fetch_errors,
                   requests>>

\* load_summaries and the regeneration of the feed
regenerate_rss ==
    /\ phase = "rss"
    /\ IF config.rss
       THEN \/ RunExits /\ UNCHANGED feed
            \/ /\ feed' = IF cache # << >> THEN GenerateFeedFromSummaries(cache) ELSE feed
               /\ phase' = "commit"
               /\ UNCHANGED session
       ELSE /\ phase' = "commit"
            /\ UNCHANGED <<feed, session>>
    /\ UNCHANGED <<libVars, config, store, cache, clock, runs, max_runs, args, set_calls,
                   last_run_updates, cache_entries, hist, taskVars, fetch_errors, requests>>

\* set_multiple_last_run_times called whatever last_run_updates holds
commit_last_run_times_always ==
    /\ phase = "commit"
    /\ set_calls' = set_calls + 1
    /\ \/ RunExits /\ UNCHANGED store
       \/ /\ store' = SetMultipleLastRunTimes(store, last_run_updates)
          /\ phase' = "returned"
          /\ session' = AExit(session)
    /\ UNCHANGED <<libVars, config, cache, feed, clock, runs, max_runs, args,
                   last_run_updates, cache_entries, hist, taskVars, fetch_errors, requests>>

\* set_multiple_last_run_times(last_run_updates), and the return of run
commit_last_run_times ==
    /\ phase = "commit"
    /\ IF DOMAIN last_run_updates # {}
       THEN /\ set_calls' = set_calls + 1
            /\ \/ RunExits /\ UNCHANGED store
               \/ /\ store' = SetMultipleLastRunTimes(store, last_run_updates)
                  /\ phase' = "returned"
                  /\ session' = AExit(session)
       ELSE /\ phase' = "returned"
            /\ session' = AExit(session)
            /\ UNCHANGED <<store, set_calls>>
    /\ UNCHANGED <<libVars, config, cache, feed, clock, runs, max_runs, args,
                   last_run_updates, cache_entries, hist, taskVars, fetch_errors, requests>>

Steps ==
    \/ \E r \in Repos : process_with_semaphore(r)
    \/ \E r \in Repos : calculate_since_repo(r)
    \/ \E r \in Repos : calculate_since_global(r)
    \/ \E r \in Repos : fetch_repo_data(r)
    \/ \E r \in Repos : generate_summary(r)
    \/ \E r \in Repos : save_outputs(r)
    \/ gather_returns
    \/ add_summaries_to_cache
    \/ regenerate_rss
    \/ commit_last_run_times

Next ==
    \/ run_start(ResolvedLimits, Summarizers, SaveChoices, StartupOutcomes, RepoNames)
    \/ Steps

Spec == Init /\ [][Next]_vars

\* several runs, one after the other, of a small configuration with a
\* summarizer, no output files and one repository processed at a time
NextRuns ==
    \/ run_start({1}, {TRUE}, {<<FALSE, FALSE>>}, {"ok"}, {None})
    \/ Steps

InitRuns == InitWith(Configs(MaxTracked, {TRUE}, {FALSE}, [r \in Repos |-> IncludeNone(r)]), MaxRuns, 0,
                     Stores({Garbage, Isoformat(-1)}, {Isoformat(-2)})
                         \cup Stores({Absent}, {Absent, Garbage}))
SpecRuns == InitRuns /\ [][NextRuns]_vars


\* ------------------------------------------------- last_run_manager calls
appVars == <<config, store, cache, feed, clock, runs, max_runs, phase, args, session, sem,
             pc, since, fallback_since, repo_data, summary, results, last_run_updates,
             cache_entries, set_calls, fetch_errors, requests, hist>>

\* every variable of the application but the file of the state store
appVarsButStore == <<config, cache, feed, clock, runs, max_runs, phase, args, session, sem,
                     pc, since, fallback_since, repo_data, summary, results,
                     last_run_updates, cache_entries, set_calls, fetch_errors, requests, hist>>

\* the application at rest over one of the given files
AppIdle(files) ==
    InitWith(Configs(NumRepos, {TRUE}, {FALSE}, [r \in Repos |-> IncludeOf(r)]), 0, 0, files)

\* the updates a caller passes: its own instant for one repository key, or
\* for the keys of the first two repositories
UpdateChoices(c) ==
    {[k \in {GetRunKey(ConfigPath, Some(r)) : r \in K} |-> c] :
        K \in {{Min(c, 2)}, {1, 2}}}

\* get_last_run_time: what the call does with the content of the file
GetLastRunTimeOutcome(file, config_path, repo_name) ==
    LET data == ReadLastRunTimes(file)
        run_key == GetRunKey(config_path, repo_name)
    IN IF data[run_key] = NonText
       THEN \* datetime.fromisoformat of a value that is not a str: TypeError
            [run_key |-> run_key, stored |-> data[run_key], outcome |-> "TypeError", value |-> None]
       ELSE [run_key |-> run_key, stored |-> data[run_key], outcome |-> "returned",
             value |-> GetLastRunTime(data, config_path, repo_name)]

\* what _read_file may find in the file: its content, or, while the
\* executor thread of a writer runs _write_file, a file that open(..., "w")
\* has truncated and json.dump has not filled yet, which does not decode
ObservableFiles ==
    IF \E c \in Callers : caller[c].pc = "writing" THEN {store, Corrupt} ELSE {store}

\* one reader, at any moment of the writers' calls; it takes no lock
get_last_run_time ==
    /\ got = GotNothing
    /\ \E repo_name \in {None, Some(1)}, file \in ObservableFiles :
          LET call == GetLastRunTimeOutcome(file, ConfigPath, repo_name) IN
          got' = [run_key |-> call.run_key, stored |-> call.stored, outcome |-> call.outcome,
                  value |-> call.value,
                  held |-> ReadLastRunTimes(store)[call.run_key],
                  overlapped |-> \E c \in Callers : caller[c].pc = "writing"]
    /\ UNCHANGED <<appVars, serviceVars, engineVars, lock, caller, pg, resolved>>

\* set_multiple_last_run_times entered without taking _async_lock
set_multiple_enter_unlocked(c) ==
    /\ caller[c].pc = "idle"
    /\ \E updates \in UpdateChoices(c) :
          caller' = [caller EXCEPT ![c] = [@ EXCEPT !.pc = "reading", !.updates = updates]]
    /\ UNCHANGED <<appVars, serviceVars, engineVars, lock, got, pg, resolved>>

\* set_multiple_last_run_times(updates) up to async with _async_lock: the lock
\* is taken at once when it is free
set_multiple_enter(c) ==
    /\ caller[c].pc = "idle"
    /\ \E updates \in UpdateChoices(c) :
          caller' = [caller EXCEPT ![c] = [@ EXCEPT !.pc = IF lock = None THEN "reading" ELSE "waiting",
                                                    !.waited = lock # None,
                                                    !.updates = updates]]
    /\ lock' = IF lock = None THEN Some(c) ELSE lock
    /\ UNCHANGED <<appVars, serviceVars, engineVars, got, pg, resolved>>

\* a waiting caller gets the released lock
lock_acquire(c) ==
    /\ caller[c].pc = "waiting"
    /\ lock = None
    /\ lock' = Some(c)
    /\ caller' = [caller EXCEPT ![c].pc = "reading"]
    /\ UNCHANGED <<appVars, serviceVars, engineVars, got, pg, resolved>>

\* data = await _read_last_run_times()
read_last_run_times(c) ==
    /\ caller[c].pc = "reading"
    /\ caller' = [caller EXCEPT ![c] = [@ EXCEPT !.pc = "writing", !.data = ReadLastRunTimes(store)]]
    /\ UNCHANGED <<appVars, serviceVars, engineVars, lock, got, pg, resolved>>

\* the update loop, await _write_last_run_times(data) and the release of the
\* lock; a write that fails leaves the file as it was or truncated
write_last_run_times(c) ==
    /\ caller[c].pc = "writing"
    /\ \/ /\ store' = SetMultipleLastRunTimes(caller[c].data, caller[c].updates)
          /\ caller' = [caller EXCEPT ![c] = [@ EXCEPT !.pc = "done", !.writes = @ + 1]]
       \/ /\ store' \in {store, Corrupt}
          /\ caller' = [caller EXCEPT ![c].pc = "raised"]
    /\ lock' = IF lock = Some(c) THEN None ELSE lock
    /\ UNCHANGED <<appVarsButStore, serviceVars, engineVars, got, pg, resolved>>

NextStore ==
    \/ get_last_run_time
    \/ \E c \in Callers : set_multiple_enter(c)
    \/ \E c \in Callers : lock_acquire(c)
    \/ \E c \in Callers : read_last_run_times(c)
    \/ \E c \in Callers : write_last_run_times(c)

\* the files the calls start from: entries that parse, entries that do not,
\* no entry, and a file that does not decode
InitStore ==
    AppIdle(Stores({Absent, Garbage, NonText, Isoformat(-1)}, {Absent, Isoformat(-2)}) \cup {Corrupt})

SpecStore == InitStore /\ [][NextStore]_vars


\* ------------------------------------------- GitHubService._paginate_graphql
\* the nodes of page number n when it holds size of them
PageNodes(n, size) == [j \in 1..size |-> <<n, j>>]

\* what data_extractor finds in the answer to request number n: the server
\* chooses the size of the page and its hasNextPage
Pages(n) ==
    {[nodes |-> PageNodes(n, size),
      hasNextPage |-> more,
      endCursor |-> IF size = 0 THEN None ELSE Some(n)] :
        size \in 0..MaxPageSize, more \in BOOLEAN}

\* all_nodes.extend(page_data["nodes"]) with the new nodes put first
ExtendFront(all_nodes, nodes) == nodes \o all_nodes

\* all_nodes.extend(page_data["nodes"])
Extend(all_nodes, nodes) == all_nodes \o nodes

\* the call, its locals initialised (github_client.py 293-298)
paginate_start ==
    /\ pg.pc = "idle"
    /\ \E max_pages \in (1..MaxPages) \cup {default_max_pages} :
          pg' = [PgIdle EXCEPT !.pc = "loop", !.max_pages = max_pages]
    /\ UNCHANGED <<appVars, serviceVars, engineVars, lock, caller, got, resolved>>

\* one turn of the loop that goes on after a request that raised
paginate_request_swallow ==
    /\ pg.pc = "loop"
    /\ pg.has_next_page /\ pg.i < pg.max_pages
    /\ \/ pg' = [pg EXCEPT !.requests = Append(@, pg.cursor), !.i = @ + 1]
       \/ \E page_data \in Pages(pg.i + 1) :
             pg' = [pg EXCEPT !.requests = Append(@, pg.cursor),
                              !.pages = Append(@, page_data),
                              !.all_nodes = Extend(@, page_data.nodes),
                              !.has_next_page = page_data.hasNextPage,
                              !.cursor = page_data.endCursor,
                              !.i = @ + 1]
    /\ UNCHANGED <<appVars, serviceVars, engineVars, lock, caller, got, resolved>>

\* one more turn of the loop than the ceiling allows
paginate_request_extra ==
    /\ pg.pc = "loop"
    /\ pg.has_next_page /\ pg.i <= pg.max_pages
    /\ \/ pg' = [pg EXCEPT !.requests = Append(@, pg.cursor), !.pc = "raised"]
       \/ \E page_data \in Pages(pg.i + 1) :
             pg' = [pg EXCEPT !.requests = Append(@, pg.cursor),
                              !.pages = Append(@, page_data),
                              !.all_nodes = Extend(@, page_data.nodes),
                              !.has_next_page = page_data.hasNextPage,
                              !.cursor = page_data.endCursor,
                              !.i = @ + 1]
    /\ UNCHANGED <<appVars, serviceVars, engineVars, lock, caller, got, resolved>>

\* one turn of the loop (github_client.py 300-325): the request carries the
\* cursor; it raises, or its page is taken in
paginate_request ==
    /\ pg.pc = "loop"
    /\ pg.has_next_page /\ pg.i < pg.max_pages
    /\ \/ pg' = [pg EXCEPT !.requests = Append(@, pg.cursor), !.pc = "raised"]
       \/ \E page_data \in Pages(pg.i + 1) :
             pg' = [pg EXCEPT !.requests = Append(@, pg.cursor),
                              !.pages = Append(@, page_data),
                              !.all_nodes = Extend(@, page_data.nodes),
                              !.has_next_page = page_data.hasNextPage,
                              !.cursor = page_data.endCursor,
                              !.i = @ + 1]
    /\ UNCHANGED <<appVars, serviceVars, engineVars, lock, caller, got, resolved>>

\* the end of the loop with a warning whenever the ceiling was reached
paginate_return_warns_at_ceiling ==
    /\ pg.pc = "loop"
    /\ ~(pg.has_next_page /\ pg.i < pg.max_pages)
    /\ pg' = [pg EXCEPT !.pc = "returned",
                        !.warned = pg.i >= pg.max_pages,
                        !.result = Some(pg.all_nodes)]
    /\ UNCHANGED <<appVars, serviceVars, engineVars, lock, caller, got, resolved>>

\* the end of the loop (github_client.py 327-331): the warning and the return
paginate_return ==
    /\ pg.pc = "loop"
    /\ ~(pg.has_next_page /\ pg.i < pg.max_pages)
    /\ pg' = [pg EXCEPT !.pc = "returned",
                        !.warned = pg.has_next_page /\ pg.i >= pg.max_pages,
                        !.result = Some(pg.all_nodes)]
    /\ UNCHANGED <<appVars, serviceVars, engineVars, lock, caller, got, resolved>>

NextPaginate ==
    \/ paginate_start
    \/ paginate_request
    \/ paginate_return

InitPaginate == AppIdle(Stores({Absent}, {Absent}))

SpecPaginate == InitPaginate /\ [][NextPaginate]_vars


\* ------------------------------------------- the size of the semaphore
\* actions.run_report (actions.py 301-314): the argument or the configured
\* value, then the environment variable over either
RunReportMaxConcurrentRepos(max_concurrent_repos, env_concurrent, configured) ==
    LET from_config == IF max_concurrent_repos = None THEN configured
                                                     ELSE max_concurrent_repos[1]
    IN IF env_concurrent # EnvUnset /\ env_concurrent[1] = "int" THEN env_concurrent[2]
       ELSE from_config

\* GitHubSummaryApp._get_max_concurrent_repos applied to one choice of inputs
get_max_concurrent_repos ==
    /\ resolved = NotResolved
    /\ \E override \in Overrides, env \in EnvValues, configured \in ConfiguredLimits :
          resolved' = [by |-> "app", override |-> override, env |-> env,
                       configured |-> configured,
                       value |-> GetMaxConcurrentRepos(override, env, configured)]
    /\ UNCHANGED <<appVars, serviceVars, engineVars, lock, caller, got, pg>>

\* the resolution of actions.run_report applied to one choice of inputs
run_report_max_concurrent_repos ==
    /\ resolved = NotResolved
    /\ \E max_concurrent_repos \in Overrides, env \in EnvValues, configured \in ConfiguredLimits :
          resolved' = [by |-> "run_report", override |-> max_concurrent_repos, env |-> env,
                       configured |-> configured,
                       value |-> RunReportMaxConcurrentRepos(max_concurrent_repos, env, configured)]
    /\ UNCHANGED <<appVars, serviceVars, engineVars, lock, caller, got, pg>>

NextLimit ==
    \/ get_max_concurrent_repos
    \/ run_report_max_concurrent_repos

InitLimit == AppIdle(Stores({Absent}, {Absent}))

SpecLimit == InitLimit /\ [][NextLimit]_vars


\* ------------------------------------------------- merging filter specs
\* the fields of CommitFilterConfig, PullRequestFilterConfig,
\* IssueFilterConfig and DiscussionFilterConfig (models.py 9-40)
SinceFilterType == "pull_requests.since_filter_type"
FilterFields ==
    {"commits.author", "commits.exclude_commit_messages_regex",
     "pull_requests.author", "pull_requests.state", "pull_requests.labels",
     "pull_requests.exclude_pull_request_titles_regex", SinceFilterType,
     "issues.author", "issues.milestone", "issues.labels", "issues.assignee",
     "issues.exclude_issue_titles_regex",
     "discussions.author", "discussions.exclude_discussion_titles_regex"}

\* the default of a field: None, but "updated" for since_filter_type
FieldDefault(f) == IF f = SinceFilterType THEN <<"updated">> ELSE None

\* the values a configuration file can give to a field
FieldValues(f) == IF f = SinceFilterType THEN {<<"updated">>, <<"created">>}
                                         ELSE {<<"a">>, <<"b">>}

\* the FilterConfig objects pydantic builds from a configuration file that
\* gives at most MaxSetFields fields
ParsedFilterConfigs ==
    UNION {{[values |-> [f \in FilterFields |-> IF f \in K THEN v[f] ELSE FieldDefault(f)],
             fields_set |-> K]
            : v \in {w \in [K -> {<<"a">>, <<"b">>, <<"updated">>, <<"created">>}] :
                        \A f \in K : w[f] \in FieldValues(f)}}
           : K \in {X \in SUBSET FilterFields : Cardinality(X) <= MaxSetFields}}

\* the keys of model_dump(exclude_none=True) over the four sub-filters
DumpExcludeNone(m) == {f \in FilterFields : m.values[f] # None}

\* the keys of model_dump(exclude_unset=True) over the four sub-filters
DumpExcludeUnset(m) == m.fields_set

\* model_copy(update=...) of the four sub-filters of m with the keys taken
\* from other: the updated keys count as set in the copy
ModelCopyUpdate(m, keys, other) ==
    [values |-> [f \in FilterFields |-> IF f \in keys THEN other.values[f] ELSE m.values[f]],
     fields_set |-> m.fields_set \cup keys]

\* FilterConfig.merge_with(other)
MergeWith(self, other) == ModelCopyUpdate(self, DumpExcludeNone(other), other)

\* GitHubSummaryApp._merge_filters and actions.merge_filters: the value returned
MergeFilters(repo_filters, global_filters) ==
    ModelCopyUpdate(global_filters, DumpExcludeUnset(repo_filters), repo_filters)

\* load_config: the global filters and the filters of one repository as parsed
parse_filters ==
    /\ merging = NotMerging
    /\ \E g \in ParsedFilterConfigs, r \in ParsedFilterConfigs :
          merging' = [pc |-> "parsed", validated |-> FALSE,
                      parsed_global |-> g, parsed_repo |-> r,
                      global_filters |-> g, filters |-> r,
                      merged |-> None, again |-> None]
    /\ UNCHANGED <<appVars, serviceVars, lock, caller, got, pg, resolved, query>>

\* Config.merge_global_filters: repo.filters becomes a copy of the global
\* filters merged with the repository's
merge_global_filters ==
    /\ merging.pc = "parsed"
    /\ ~merging.validated
    /\ merging' = [merging EXCEPT !.validated = TRUE,
                                  !.filters = MergeWith(merging.global_filters, merging.filters)]
    /\ UNCHANGED <<appVars, serviceVars, lock, caller, got, pg, resolved, query>>

\* _merge_filters writing into global_filters itself instead of a copy
merge_filters_in_place ==
    /\ merging.pc = "parsed"
    /\ merging' = [merging EXCEPT !.pc = "merged",
                                  !.merged = MergeFilters(merging.filters, merging.global_filters),
                                  !.global_filters = MergeFilters(merging.filters, merging.global_filters)]
    /\ UNCHANGED <<appVars, serviceVars, lock, caller, got, pg, resolved, query>>

\* _merge_filters(repo, config.global_filters), on a validated Config or on
\* a RepoConfig built on its own
merge_filters ==
    /\ merging.pc = "parsed"
    /\ merging' = [merging EXCEPT !.pc = "merged",
                                  !.merged = MergeFilters(merging.filters, merging.global_filters)]
    /\ UNCHANGED <<appVars, serviceVars, lock, caller, got, pg, resolved, query>>

\* _merge_filters(repo, merged): the result merged with the same repository again
merge_filters_again ==
    /\ merging.pc = "merged"
    /\ merging' = [merging EXCEPT !.pc = "remerged",
                                  !.again = MergeFilters(merging.filters, merging.merged)]
    /\ UNCHANGED <<appVars, serviceVars, lock, caller, got, pg, resolved, query>>

NextMerge ==
    \/ parse_filters
    \/ merge_global_filters
    \/ merge_filters
    \/ merge_filters_again

InitMerge == AppIdle(Stores({Absent}, {Absent}))

SpecMerge == InitMerge /\ [][NextMerge]_vars


\* ---------------------------------------------------- the filter engine
\* the since boundary of the call, and the timestamps of the fetched nodes
QuerySince == 0
NodeDates == {QuerySince - 1, QuerySince, QuerySince + 1}

\* headlines and titles as texts, and the pattern of an exclusion regex
Texts == {<<"v", "f">>, <<"f", "v">>, <<"f">>}
Pattern == <<"v">>

\* re.search(pattern, text): the pattern matches somewhere in the text
ReSearch(pattern, text) ==
    \E k \in 1..Len(text) :
        /\ k + Len(pattern) - 1 <= Len(text)
        /\ SubSeq(text, k, k + Len(pattern) - 1) = pattern

\* all sequences over a set, up to a length
SeqsUpTo(S, n) == UNION {[1..k -> S] : k \in 0..n}

\* the nodes that pass, in fetched order; verdicts[j] is the outcome of the
\* loop body on fetched[j]
RECURSIVE Kept(_, _)
Kept(fetched, verdicts) ==
    IF fetched = << >> THEN << >>
    ELSE (IF Head(verdicts) = "keep" THEN <<Head(fetched)>> ELSE << >>)
         \o Kept(Tail(fetched), Tail(verdicts))

\* the loop over the fetched nodes: the first error raised ends the call
FilterLoop(fetched, verdicts) ==
    LET errors == {j \in DOMAIN verdicts : verdicts[j] \notin {"keep", "skip"}} IN
    IF errors = {} THEN [pc |-> "returned", result |-> Kept(fetched, verdicts), error |-> "none"]
    ELSE [pc |-> "raised", result |-> << >>,
          error |-> verdicts[CHOOSE j \in errors : \A k \in errors : j <= k]]

\* a data type that is not included: no request, the empty list
NotIncluded(kind, filters, since_time) ==
    [pc |-> "returned", kind |-> kind, include |-> FALSE, filters |-> filters,
     since |-> since_time, requested |-> FALSE, search_query |-> None,
     fetched |-> << >>, result |-> << >>, error |-> "none"]

\* a call that asked the server and filtered what it returned; models[j] is
\* the object built from fetched[j]
Filtered(kind, filters, since_time, search_query, fetched, verdicts, models) ==
    LET out == FilterLoop(models, verdicts) IN
    [pc |-> out.pc, kind |-> kind, include |-> TRUE, filters |-> filters,
     since |-> since_time, requested |-> TRUE, search_query |-> search_query,
     fetched |-> fetched, result |-> out.result, error |-> out.error]

\* the commit nodes of the history query, and the commit filters
CommitNodes == [date : NodeDates, name : {"a", "b"}, messageHeadline : Texts]
CommitFilters == [author : {None, <<"a">>}, exclude_commit_messages_regex : {None, Pattern}]

\* the loop body of get_commits with the boundary itself rejected
CommitVerdictStrict(item, filters, since_time) ==
    IF item.date <= since_time THEN "skip"
    ELSE IF filters.author # None /\ <<item.name>> # filters.author THEN "skip"
    ELSE IF /\ filters.exclude_commit_messages_regex # None
            /\ ReSearch(filters.exclude_commit_messages_regex, item.messageHeadline) THEN "skip"
    ELSE "keep"

\* the loop body of get_commits (github_client.py 79-98)
CommitVerdict(item, filters, since_time) ==
    IF item.date < since_time THEN "skip"
    ELSE IF filters.author # None /\ <<item.name>> # filters.author THEN "skip"
    ELSE IF /\ filters.exclude_commit_messages_regex # None
            /\ ReSearch(filters.exclude_commit_messages_regex, item.messageHeadline) THEN "skip"
    ELSE "keep"

\* Commit(sha=, author=, message=, date=, html_url=) of a node
CommitOf(item) == [author |-> item.name, message |-> item.messageHeadline, date |-> item.date]

\* GitHubService.get_commits(repo, filters, since)
GetCommits(include, filters, since_time, fetched) ==
    IF ~include THEN NotIncluded("commits", filters, since_time)
    ELSE Filtered("commits", filters, since_time, None, fetched,
                  [j \in DOMAIN fetched |-> CommitVerdict(fetched[j], filters, since_time)],
                  [j \in DOMAIN fetched |-> CommitOf(fetched[j])])

get_commits ==
    /\ query = NoQuery
    /\ \E filters \in CommitFilters :
          \/ query' = GetCommits(FALSE, filters, QuerySince, << >>)
          \/ \E fetched \in SeqsUpTo(CommitNodes, MaxCommits) :
                query' = GetCommits(TRUE, filters, QuerySince, fetched)
    /\ UNCHANGED <<appVars, serviceVars, lock, caller, got, pg, resolved, merging>>

\* the author object of a node: null for a deleted account
NodeAuthors == {None, <<"a">>, <<"b">>}
NodeLabels == {{}, {"bug", "p1"}}
NodeTitles == {<<"v", "f">>, <<"f">>}
RequiredLabels == {None, <<"bug">>, <<"bug", "p2">>}

\* item["author"]["login"] if item["author"] else "Unknown"
LoginOf(author) == IF author = None THEN "Unknown" ELSE author[1]

\* all(label in labels for label in required)
AllLabelsIn(required, labels) == \A j \in DOMAIN required : required[j] \in labels

\* the pull request nodes, created no later than updated, and their filters
PullRequestNodes ==
    {n \in [createdAt : NodeDates \ {QuerySince}, updatedAt : NodeDates \ {QuerySince},
            author : NodeAuthors, state : {"OPEN", "MERGED"}, labels : NodeLabels,
            title : NodeTitles] : n.createdAt <= n.updatedAt}
PullRequestFilters ==
    [author : {None, <<"a">>}, state : {None, <<"OPEN">>}, labels : RequiredLabels,
     exclude_pull_request_titles_regex : {None, Pattern},
     since_filter_type : {"updated", "created"}]

\* the loop body of get_pull_requests comparing createdAt whatever the filter says
PullRequestVerdictCreated(item, filters, since_time) ==
    IF item.createdAt < since_time THEN "skip"
    ELSE IF /\ filters.author # None
            /\ item.author # None
            /\ item.author # filters.author THEN "skip"
    ELSE IF filters.state # None /\ <<item.state>> # filters.state THEN "skip"
    ELSE IF /\ filters.labels \notin {None, << >>}
            /\ ~AllLabelsIn(filters.labels, item.labels) THEN "skip"
    ELSE IF /\ filters.exclude_pull_request_titles_regex # None
            /\ ReSearch(filters.exclude_pull_request_titles_regex, item.title) THEN "skip"
    ELSE "keep"

\* the loop body of get_pull_requests (github_client.py 121-160)
PullRequestVerdict(item, filters, since_time) ==
    LET pr_date == IF filters.since_filter_type = "updated" THEN item.updatedAt
                                                            ELSE item.createdAt
    IN IF pr_date < since_time THEN "skip"
       ELSE IF /\ filters.author # None
               /\ item.author # None
               /\ item.author # filters.author THEN "skip"
       ELSE IF filters.state # None /\ <<item.state>> # filters.state THEN "skip"
       ELSE IF /\ filters.labels \notin {None, << >>}
               /\ ~AllLabelsIn(filters.labels, item.labels) THEN "skip"
       ELSE IF /\ filters.exclude_pull_request_titles_regex # None
               /\ ReSearch(filters.exclude_pull_request_titles_regex, item.title) THEN "skip"
       ELSE "keep"

\* PullRequest(number=, title=, author=, state=, created_at=, ...) of a node
PullRequestOf(item) ==
    [title |-> item.title, author |-> LoginOf(item.author), state |-> item.state,
     created_at |-> item.createdAt, updated_at |-> item.updatedAt, labels |-> item.labels]

\* GitHubService.get_pull_requests(repo, filters, since)
GetPullRequests(include, filters, since_time, fetched) ==
    IF ~include THEN NotIncluded("pull_requests", filters, since_time)
    ELSE Filtered("pull_requests", filters, since_time, None, fetched,
                  [j \in DOMAIN fetched |-> PullRequestVerdict(fetched[j], filters, since_time)],
                  [j \in DOMAIN fetched |-> PullRequestOf(fetched[j])])

get_pull_requests ==
    /\ query = NoQuery
    /\ \E filters \in PullRequestFilters :
          \/ query' = GetPullRequests(FALSE, filters, QuerySince, << >>)
          \/ \E fetched \in SeqsUpTo(PullRequestNodes, MaxItems) :
                query' = GetPullRequests(TRUE, filters, QuerySince, fetched)
    /\ UNCHANGED <<appVars, serviceVars, lock, caller, got, pg, resolved, merging>>

\* a key the query does not ask for, so the node does not have it
KeyMissing == <<"missing">>

\* the issue nodes, created before the boundary: as GET_ISSUES_QUERY returns
\* them, without milestone and assignees, or with both keys as a caller may
\* supply them
IssueNodes ==
    [createdAt : {QuerySince - 1}, author : NodeAuthors, labels : NodeLabels,
     title : NodeTitles, milestone : {KeyMissing}, assignees : {KeyMissing}]
    \cup
    [createdAt : {QuerySince - 1}, author : NodeAuthors, labels : NodeLabels,
     title : NodeTitles, milestone : {None, <<"m">>, <<"n">>},
     assignees : {<<"nodes", {}>>, <<"nodes", {"x"}>>}]
IssueFilters ==
    [author : {None, <<"a">>}, milestone : {None, <<"m">>}, labels : RequiredLabels,
     assignee : {None, <<"x">>}, exclude_issue_titles_regex : {None, Pattern}]

\* the loop body of get_issues with any required label being enough
IssueVerdictAnyLabel(item, filters) ==
    IF /\ filters.author # None
       /\ item.author # None
       /\ item.author # filters.author THEN "skip"
    ELSE IF /\ filters.labels \notin {None, << >>}
            /\ ~(\E j \in DOMAIN filters.labels : filters.labels[j] \in item.labels) THEN "skip"
    ELSE IF filters.milestone # None /\ item.milestone = KeyMissing THEN "KeyError"
    ELSE IF /\ filters.milestone # None
            /\ item.milestone # None
            /\ item.milestone # filters.milestone THEN "skip"
    ELSE IF filters.assignee # None /\ item.assignees = KeyMissing THEN "KeyError"
    ELSE IF /\ filters.assignee # None
            /\ filters.assignee[1] \notin item.assignees[2] THEN "skip"
    ELSE IF /\ filters.exclude_issue_titles_regex # None
            /\ ReSearch(filters.exclude_issue_titles_regex, item.title) THEN "skip"
    ELSE "keep"

\* the loop body of get_issues (github_client.py 185-221): no date is compared
IssueVerdict(item, filters) ==
    IF /\ filters.author # None
       /\ item.author # None
       /\ item.author # filters.author THEN "skip"
    ELSE IF /\ filters.labels \notin {None, << >>}
            /\ ~AllLabelsIn(filters.labels, item.labels) THEN "skip"
    ELSE IF filters.milestone # None /\ item.milestone = KeyMissing THEN "KeyError"
    ELSE IF /\ filters.milestone # None
            /\ item.milestone # None
            /\ item.milestone # filters.milestone THEN "skip"
    ELSE IF filters.assignee # None /\ item.assignees = KeyMissing THEN "KeyError"
    ELSE IF /\ filters.assignee # None
            /\ filters.assignee[1] \notin item.assignees[2] THEN "skip"
    ELSE IF /\ filters.exclude_issue_titles_regex # None
            /\ ReSearch(filters.exclude_issue_titles_regex, item.title) THEN "skip"
    ELSE "keep"

\* Issue(number=, title=, author=, state=, created_at=, labels=) of a node
IssueOf(item) ==
    [title |-> item.title, author |-> LoginOf(item.author), created_at |-> item.createdAt,
     labels |-> item.labels]

\* the search query of get_issues: the boundary goes to the server
SearchQuery(since_time) == <<"is:issue", "created:>", since_time>>

\* GitHubService.get_issues(repo, filters, since)
GetIssues(include, filters, since_time, fetched) ==
    IF ~include THEN NotIncluded("issues", filters, since_time)
    ELSE Filtered("issues", filters, since_time, SearchQuery(since_time), fetched,
                  [j \in DOMAIN fetched |-> IssueVerdict(fetched[j], filters)],
                  [j \in DOMAIN fetched |-> IssueOf(fetched[j])])

get_issues ==
    /\ query = NoQuery
    /\ \E filters \in IssueFilters :
          \/ query' = GetIssues(FALSE, filters, QuerySince, << >>)
          \/ \E fetched \in SeqsUpTo(IssueNodes, MaxItems) :
                query' = GetIssues(TRUE, filters, QuerySince, fetched)
    /\ UNCHANGED <<appVars, serviceVars, lock, caller, got, pg, resolved, merging>>

\* the discussion nodes and their filters
DiscussionNodes == [createdAt : NodeDates, author : NodeAuthors, title : NodeTitles]
DiscussionFilters == [author : {None, <<"a">>}, exclude_discussion_titles_regex : {None, Pattern}]

\* the loop body of get_discussions with no date compared
DiscussionVerdictNoDate(item, filters, since_time) ==
    IF filters.author # None /\ item.author = None THEN "TypeError"
    ELSE IF filters.author # None /\ item.author # filters.author THEN "skip"
    ELSE IF /\ filters.exclude_discussion_titles_regex # None
            /\ ReSearch(filters.exclude_discussion_titles_regex, item.title) THEN "skip"
    ELSE "keep"

\* the loop body of get_discussions (github_client.py 239-261): the login
\* of a null author is read when an author filter is set
DiscussionVerdict(item, filters, since_time) ==
    IF item.createdAt < since_time THEN "skip"
    ELSE IF filters.author # None /\ item.author = None THEN "TypeError"
    ELSE IF filters.author # None /\ item.author # filters.author THEN "skip"
    ELSE IF /\ filters.exclude_discussion_titles_regex # None
            /\ ReSearch(filters.exclude_discussion_titles_regex, item.title) THEN "skip"
    ELSE "keep"

\* Discussion(id=, title=, author=, created_at=, ...) of a node
DiscussionOf(item) ==
    [title |-> item.title, author |-> LoginOf(item.author), created_at |-> item.createdAt]

\* GitHubService.get_discussions(repo, filters, since)
GetDiscussions(include, filters, since_time, fetched) ==
    IF ~include THEN NotIncluded("discussions", filters, since_time)
    ELSE Filtered("discussions", filters, since_time, None, fetched,
                  [j \in DOMAIN fetched |-> DiscussionVerdict(fetched[j], filters, since_time)],
                  [j \in DOMAIN fetched |-> DiscussionOf(fetched[j])])

get_discussions ==
    /\ query = NoQuery
    /\ \E filters \in DiscussionFilters :
          \/ query' = GetDiscussions(FALSE, filters, QuerySince, << >>)
          \/ \E fetched \in SeqsUpTo(DiscussionNodes, MaxItems) :
                query' = GetDiscussions(TRUE, filters, QuerySince, fetched)
    /\ UNCHANGED <<appVars, serviceVars, lock, caller, got, pg, resolved, merging>>

NextQuery ==
    \/ get_commits
    \/ get_pull_requests
    \/ get_issues
    \/ get_discussions

InitQuery == AppIdle(Stores({Absent}, {Absent}))

SpecQuery == InitQuery /\ [][NextQuery]_vars

\* ------------------------------------------------------ AsyncLLMClient
\* One client, built by _get_summarizer, serves every repository task of a
\* run; a task holds its permit of the repository semaphore while it calls
\* generate_summary.
Tasks == 1..NumTasks
Contents == {"text", ""}
Failures == {"error", "no_choices", "null_content"}
TaskPending == [pc |-> "pending", calls |-> 0, last |-> "none", result |-> None]

\* tenacity stop_after_attempt(retries), and a stop one attempt later
StopAfterAttemptExceeded(attempt_number, retries) == attempt_number > retries
StopAfterAttempt(attempt_number, retries) == attempt_number >= retries

\* AsyncLLMClient(retries, max_concurrent) and the semaphore of run
llm_client_init ==
    /\ client = NoClient
    /\ \E retries \in 0..MaxRetries, max_concurrent \in 1..MaxLimit,
          max_concurrent_repos \in 1..MaxLimit :
          client' = [pc |-> "ready", retries |-> retries, max_concurrent |-> max_concurrent,
                     semaphore |-> max_concurrent,
                     max_concurrent_repos |-> max_concurrent_repos,
                     repo_semaphore |-> max_concurrent_repos,
                     task |-> [t \in Tasks |-> TaskPending]]
    /\ UNCHANGED <<appVars, lock, caller, got, pg, resolved, engineVars, sc, jobs>>

\* process_with_semaphore: async with semaphore, then _process_repository
\* up to the call of the summarizer
llm_process_with_semaphore(t) ==
    /\ client.pc = "ready"
    /\ client.task[t].pc = "pending"
    /\ client.repo_semaphore > 0
    /\ client' = [client EXCEPT !.repo_semaphore = @ - 1, !.task[t].pc = "processing"]
    /\ UNCHANGED <<appVars, lock, caller, got, pg, resolved, engineVars, sc, jobs>>

\* generate_summary entered without waiting for a permit
llm_generate_summary_unbounded(t) ==
    /\ client.pc = "ready"
    /\ client.task[t].pc = "processing"
    /\ client' = [client EXCEPT !.semaphore = @ - 1, !.task[t].pc = "requesting"]
    /\ UNCHANGED <<appVars, lock, caller, got, pg, resolved, engineVars, sc, jobs>>

\* generate_summary: async with self.semaphore
llm_generate_summary(t) ==
    /\ client.pc = "ready"
    /\ client.task[t].pc = "processing"
    /\ client.semaphore > 0
    /\ client' = [client EXCEPT !.semaphore = @ - 1, !.task[t].pc = "requesting"]
    /\ UNCHANGED <<appVars, lock, caller, got, pg, resolved, engineVars, sc, jobs>>

\* what one attempt of _generate_summary_internal leaves: the content is
\* returned, the failure is retried, or the retrying stops and raises
AttemptOutcome(task, retries, response) ==
    LET attempt_number == task.calls + 1 IN
    IF response \in Contents
    THEN [pc |-> "returned", calls |-> attempt_number, last |-> response,
          result |-> Some(response)]
    ELSE IF StopAfterAttempt(attempt_number, retries)
         THEN [pc |-> "raised", calls |-> attempt_number, last |-> response, result |-> None]
         ELSE [pc |-> "requesting", calls |-> attempt_number, last |-> response,
               result |-> None]

\* one attempt whose failure leaves generate_summary without releasing
llm_attempt_keeps_permit(t) ==
    /\ client.pc = "ready"
    /\ client.task[t].pc = "requesting"
    /\ \E response \in Contents \cup Failures :
          LET after == AttemptOutcome(client.task[t], client.retries, response) IN
          client' = [client EXCEPT !.task[t] = after,
                                   !.semaphore = IF after.pc = "returned" THEN @ + 1 ELSE @]
    /\ UNCHANGED <<appVars, lock, caller, got, pg, resolved, engineVars, sc, jobs>>

\* one attempt of _generate_summary_internal: the request, the checks of
\* the response and, when the call returns or raises, the exit of
\* async with self.semaphore
llm_attempt(t) ==
    /\ client.pc = "ready"
    /\ client.task[t].pc = "requesting"
    /\ \E response \in Contents \cup Failures :
          LET after == AttemptOutcome(client.task[t], client.retries, response) IN
          client' = [client EXCEPT !.task[t] = after,
                                   !.semaphore = IF after.pc = "requesting" THEN @ ELSE @ + 1]
    /\ UNCHANGED <<appVars, lock, caller, got, pg, resolved, engineVars, sc, jobs>>

\* _process_repository returns, with the summary or with the failure result,
\* and process_with_semaphore leaves async with semaphore
llm_process_returns(t) ==
    /\ client.pc = "ready"
    /\ client.task[t].pc \in {"returned", "raised"}
    /\ client' = [client EXCEPT !.repo_semaphore = @ + 1,
                                !.task[t].pc = IF @ = "returned" THEN "done" ELSE "failed"]
    /\ UNCHANGED <<appVars, lock, caller, got, pg, resolved, engineVars, sc, jobs>>

NextLLM ==
    \/ llm_client_init
    \/ \E t \in Tasks : llm_process_with_semaphore(t)
    \/ \E t \in Tasks : llm_generate_summary(t)
    \/ \E t \in Tasks : llm_attempt(t)
    \/ \E t \in Tasks : llm_process_returns(t)

InitLLM == AppIdle(Stores({Absent}, {Absent}))

SpecLLM == InitLLM /\ [][NextLLM]_vars

\* every request ends, a free permit is handed to a task that waits for it,
\* and the event loop runs every task that can run
SpecLLMFair ==
    /\ SpecLLM
    /\ \A t \in Tasks : /\ WF_vars(llm_process_with_semaphore(t))
                        /\ WF_vars(llm_generate_summary(t))
                        /\ WF_vars(llm_attempt(t))
                        /\ WF_vars(llm_process_returns(t))

\* -------------------------------------------------------- SummaryCache
\* The calls of one SummaryCache on its file, one after the other.
SummaryIds == {"a", "b"}
Summaries == [id : SummaryIds, timestamp : 1..MaxStamps]
Batches == UNION {[1..n -> Summaries] : n \in 0..MaxBatch}
IdsOf(summaries) == {summaries[j].id : j \in DOMAIN summaries}

\* the summaries that save_all leaves out: sorted_summaries[max_entries:]
Pruned(summaries, max_entries) ==
    LET sorted_summaries == SortNewestFirst(summaries) IN
    SubSeq(sorted_summaries, Min(Len(sorted_summaries), max_entries) + 1, Len(sorted_summaries))

\* SummaryCache(cache_file, max_entries) on a cache file that does not exist
cache_init ==
    /\ sc = NoCacheCall
    /\ \E max_entries \in 1..MaxEntries :
          sc' = [pc |-> "ready", max_entries |-> max_entries, file |-> << >>, op |-> "none",
                 only_add_batch |-> TRUE, cached_ids |-> {}, submitted_ids |-> {},
                 offered |-> 0, pruned |-> << >>, wrote |-> FALSE, returned |-> 0]
    /\ UNCHANGED <<appVars, lock, caller, got, pg, resolved, engineVars, client, jobs>>

\* add_batch(new_summaries): load_all, the duplicate filter, save_all when a
\* summary is left, and the count returned
cache_add_batch ==
    /\ sc.pc = "ready"
    /\ \E new_summaries \in Batches :
          LET existing == sc.file
              unique_new == UniqueNew(new_summaries, IdsOf(existing))
              all_summaries == existing \o unique_new
          IN sc' = [sc EXCEPT !.op = "add_batch",
                              !.cached_ids = IdsOf(existing),
                              !.submitted_ids = IdsOf(new_summaries),
                              !.file = AddBatch(existing, new_summaries, sc.max_entries),
                              !.wrote = unique_new # << >>,
                              !.offered = IF unique_new # << >> THEN Len(all_summaries) ELSE 0,
                              !.pruned = IF unique_new # << >>
                                         THEN Pruned(all_summaries, sc.max_entries) ELSE << >>,
                              !.returned = Len(unique_new)]
    /\ UNCHANGED <<appVars, lock, caller, got, pg, resolved, engineVars, client, jobs>>

\* save_summaries(summaries): save_all replaces the cache
cache_save_all ==
    /\ sc.pc = "ready"
    /\ \E summaries \in Batches :
          sc' = [sc EXCEPT !.op = "save_all",
                           !.only_add_batch = FALSE,
                           !.cached_ids = IdsOf(sc.file),
                           !.submitted_ids = IdsOf(summaries),
                           !.file = SaveAll(summaries, sc.max_entries),
                           !.wrote = TRUE,
                           !.offered = Len(summaries),
                           !.pruned = Pruned(summaries, sc.max_entries),
                           !.returned = 0]
    /\ UNCHANGED <<appVars, lock, caller, got, pg, resolved, engineVars, client, jobs>>

NextCache ==
    \/ cache_init
    \/ cache_add_batch
    \/ cache_save_all

InitCache == AppIdle(Stores({Absent}, {Absent}))

SpecCache == InitCache /\ [][NextCache]_vars

\* ------------------------------------------------------ scheduled jobs
\* Two jobs of one ReportScheduler, each running GitHubSummaryApp.run on the
\* first repository with since_last_run set, in runs where nothing fails;
\* between two steps of a job the clock may advance, a commit may reach the
\* remote repository, and the other job may run.
Jobs == {"global_schedule", "repo_schedule"}
NoRun == [ran |-> FALSE, since |-> None, returned |-> {}]
JobIdle == [pc |-> "idle", since |-> None, remote |-> {}, returned |-> {},
            completion_time |-> None, prev |-> NoRun]

\* the commits of the remote history that get_commits returns
CommitsSince(history, since_time) == {date \in history : ~(date < since_time[1])}

\* AsyncIOScheduler.start()
scheduler_start ==
    /\ jobs = NoJobs
    /\ jobs' = [pc |-> "started", now |-> 0, history |-> {}, runs |-> 0,
                job |-> [j \in Jobs |-> JobIdle]]
    /\ UNCHANGED <<appVars, lock, caller, got, pg, resolved, engineVars, client, sc>>

\* time passes
jobs_tick ==
    /\ jobs.pc = "started"
    /\ jobs.now < MaxClock
    /\ jobs' = [jobs EXCEPT !.now = @ + 1]
    /\ UNCHANGED <<appVars, lock, caller, got, pg, resolved, engineVars, client, sc>>

\* a commit dated now reaches the default branch of the repository
jobs_push_commit ==
    /\ jobs.pc = "started"
    /\ jobs.now \notin jobs.history
    /\ jobs' = [jobs EXCEPT !.history = @ \cup {jobs.now}]
    /\ UNCHANGED <<appVars, lock, caller, got, pg, resolved, engineVars, client, sc>>

\* the trigger of a job fires, MaxRuns times in all: run up to
\* _calculate_since_time_for_repo
job_calculate_since(j) ==
    /\ jobs.pc = "started"
    /\ jobs.job[j].pc = "idle"
    /\ jobs.runs < MaxRuns
    /\ LET data == ReadLastRunTimes(store)
           last_run_time == GetLastRunTime(data, ConfigPath, Some(1))
           global_last_run_time == GetLastRunTime(data, ConfigPath, None)
           fallback == Some(jobs.now - fallback_lookback_days)
           since_time == IF last_run_time # None THEN last_run_time
                         ELSE IF global_last_run_time # None THEN global_last_run_time
                         ELSE fallback
       IN jobs' = [jobs EXCEPT !.runs = @ + 1,
                               !.job[j] = [@ EXCEPT !.pc = "fetch", !.since = since_time]]
    /\ UNCHANGED <<appVars, lock, caller, got, pg, resolved, engineVars, client, sc>>

\* _fetch_repo_data: get_commits on the history as it is now
job_fetch_repo_data(j) ==
    /\ jobs.pc = "started"
    /\ jobs.job[j].pc = "fetch"
    /\ jobs' = [jobs EXCEPT !.job[j] = [@ EXCEPT !.pc = "summarize",
                                                 !.remote = jobs.history,
                                                 !.returned = CommitsSince(jobs.history, jobs.job[j].since)]]
    /\ UNCHANGED <<appVars, lock, caller, got, pg, resolved, engineVars, client, sc>>

\* the summary and the outputs, then completion_time = datetime.now(UTC)
job_record_completion(j) ==
    /\ jobs.pc = "started"
    /\ jobs.job[j].pc = "summarize"
    /\ jobs' = [jobs EXCEPT !.job[j] = [@ EXCEPT !.pc = "gathered",
                                                 !.completion_time = Some(jobs.now)]]
    /\ UNCHANGED <<appVars, lock, caller, got, pg, resolved, engineVars, client, sc>>

\* run after gather: set_multiple_last_run_times(updates), under
\* _async_lock, and the end of the run
job_commit_last_run_times(j) ==
    /\ jobs.pc = "started"
    /\ jobs.job[j].pc = "gathered"
    /\ LET this == jobs.job[j]
           updates == [k \in {GetRunKey(ConfigPath, Some(1))} |-> this.completion_time[1]]
       IN /\ store' = SetMultipleLastRunTimes(ReadLastRunTimes(store), updates)
          /\ jobs' = [jobs EXCEPT !.job[j] =
                         [JobIdle EXCEPT !.prev = [ran |-> TRUE, since |-> this.since,
                                                   returned |-> this.returned]]]
    /\ UNCHANGED <<appVarsButStore, lock, caller, got, pg, resolved, engineVars, client, sc>>

NextJobs ==
    \/ scheduler_start
    \/ jobs_tick
    \/ jobs_push_commit
    \/ \E j \in Jobs : job_calculate_since(j)
    \/ \E j \in Jobs : job_fetch_repo_data(j)
    \/ \E j \in Jobs : job_record_completion(j)
    \/ \E j \in Jobs : job_commit_last_run_times(j)

InitJobs == AppIdle(Stores({Absent}, {Absent}))

SpecJobs == InitJobs /\ [][NextJobs]_vars

\* ---------------------------------------------------------------- claims
InFlightPositions == {"since_repo", "since_global", "fetch", "summarize", "save"}
InFlight == {r \in Repos : pc[r] \in InFlightPositions}
PastBarrier == phase \in {"cache", "rss", "commit", "returned"}
RepoKey(r) == <<ConfigPath, r>>
GlobalKey == <<ConfigPath>>

\* C1: at every instant the number of repositories whose _process_repository
\* call is in flight is at most max_concurrent_repos, and once the gather has
\* returned there is one result for each of the N repositories of the run.
C1_ConcurrencyLimit ==
    /\ phase = "gather" => Cardinality(InFlight) <= args.max_concurrent_repos
    /\ PastBarrier => /\ DOMAIN results = Selected
                      /\ Cardinality(DOMAIN results) = Len(args.repositories)

\* the limit is reached while a repository waits and another has finished
C1_Witness ==
    /\ phase = "gather"
    /\ args.max_concurrent_repos >= 1
    /\ Cardinality(InFlight) = args.max_concurrent_repos
    /\ \E r \in Repos : pc[r] = "pending"
    /\ \E r \in Repos : pc[r] = "done"

\* C2 as stated: a repository whose fetch raised has a result with a null
\* completion time and an empty dataset.
C2_FetchFailureFailsRepository ==
    \A r \in DOMAIN results :
        fetch_errors[r] # {} => /\ results[r].completion_time = None
                                /\ results[r].repo_data = EmptyDict

\* C2, amended: a run over N repositories produces exactly N results; each
\* result is either the failure result or carries the dataset of
\* _fetch_repo_data, with empty lists for the data types whose fetch raised,
\* and a completion time exactly when tracking is enabled; the failure result
\* is produced only by since resolution, summarization or output saving,
\* never by the fetch step.
C2_Isolation ==
    /\ [](/\ PastBarrier => Cardinality(DOMAIN results) = Len(args.repositories)
          /\ \A r \in DOMAIN results :
                \/ results[r] = FailureResult(r)
                \/ /\ results[r].repo_data = FetchRepoData(r, config.include[r], fetch_errors[r])
                   /\ (results[r].completion_time # None) = config.since_last_run)
    /\ [][\A r \in Repos :
            (r \notin DOMAIN results /\ r \in DOMAIN results' /\ results'[r] = FailureResult(r))
                => pc[r] \in {"since_repo", "since_global", "summarize", "save"}]_vars

\* three results; every fetch of repository 2 raised and it completed, with
\* its siblings
C2_Witness ==
    /\ phase = "cache"
    /\ {1, 2, 3} \subseteq DOMAIN results
    /\ fetch_errors[2] = config.include[2]
    /\ fetch_errors[2] # {}
    /\ fetch_errors[1] = {}
    /\ fetch_errors[3] = {}
    /\ \A r \in {1, 2, 3} : results[r].completion_time # None
    /\ results[2].repo_data["commits"] = << >>
    /\ results[1].repo_data["commits"] = Fetched(1, "commits")

C4_Barrier ==
    [][(store' # store \/ cache' # cache \/ feed' # feed \/ set_calls' > set_calls)
          => \A r \in Selected : pc[r] = "done"]_vars

\* the three outputs written in a run where one repository failed
C4_Witness ==
    /\ phase = "returned"
    /\ set_calls = 1
    /\ cache # << >>
    /\ feed # << >>
    /\ Failed # {}
    /\ \E r \in Completed : store[RepoKey(r)] = Isoformat(results[r].completion_time[1])

\* C5 as stated: whatever limit the resolution yields, a run that waits for
\* its tasks can take a step (a task acquires, proceeds or returns its
\* permit) until every task has settled.
C5_TasksProgress ==
    (phase = "gather" /\ ~AllSettled) => ENABLED Steps

\* C6 as stated: a run that left through an error had not begun to process
\* any repository.
C6_RaisesOnlyBeforeProcessing ==
    phase = "exited" => DOMAIN results = {}

\* C7: once _fetch_repo_data has returned, the list of each data type whose
\* fetch raised is empty, the list of each other enabled data type is what
\* its fetch returned, and the fetch step hands the repository on to the
\* summarizer without producing a result.
C7_DataTypeDegrades ==
    /\ [](\A r \in Repos : pc[r] \in {"summarize", "save"} =>
            /\ \A key \in fetch_errors[r] : repo_data[r][key] = << >>
            /\ \A key \in config.include[r] \ fetch_errors[r] :
                    repo_data[r][key] = Fetched(r, key)
            /\ \A key \in DataTypes \ config.include[r] : repo_data[r][key] = << >>)
    /\ [][\A r \in Repos : (pc[r] = "fetch" /\ pc'[r] # "fetch")
            => pc'[r] = "summarize" /\ r \notin DOMAIN results']_vars

\* the commits fetch raised, the pull requests are there, the task goes on
C7_Witness ==
    \E r \in Repos :
        /\ pc[r] = "summarize"
        /\ fetch_errors[r] = {"commits"}
        /\ repo_data[r]["commits"] = << >>
        /\ repo_data[r]["pull_requests"] = Fetched(r, "pull_requests")

\* C8: every step that ends a _process_repository call records a result for
\* its repository: the failure result (name, None, "", {}), or, from the last
\* step only, the summary and dataset built; the results of the other
\* repositories are left as they were, and the run stays at the gather.
C8_NeverRaises ==
    [][\A r \in Repos : (pc[r] \in InFlightPositions /\ pc'[r] \notin InFlightPositions)
          => /\ pc'[r] = "done"
             /\ phase' = "gather"
             /\ r \in DOMAIN results'
             /\ \/ results'[r] = [repo_name |-> r, completion_time |-> None,
                                  summary |-> "", repo_data |-> EmptyDict]
                \/ /\ pc[r] = "save"
                   /\ results'[r].repo_name = r
                   /\ results'[r].summary = summary[r]
                   /\ results'[r].repo_data = repo_data[r]
             /\ \A q \in DOMAIN results : q # r => results'[q] = results[q]]_vars

\* a failure result next to a sibling that completed with its summary
C8_Witness ==
    \E r \in DOMAIN results, q \in DOMAIN results :
        /\ results[r] = [repo_name |-> r, completion_time |-> None,
                         summary |-> "", repo_data |-> EmptyDict]
        /\ fetch_errors[r] # {}
        /\ results[q].completion_time # None
        /\ results[q].summary = SummaryText
        /\ results[q].repo_data["repo"] = << q >>

\* the boundary of repository r comes from the state store
FromStore(r) ==
    hist.store_before[RepoKey(r)][1] = "iso" \/ hist.store_before[GlobalKey][1] = "iso"

ResolutionOrder(data, r, now) ==
    IF data[RepoKey(r)][1] = "iso" THEN Some(data[RepoKey(r)][2])
    ELSE IF data[GlobalKey][1] = "iso" THEN Some(data[GlobalKey][2])
    ELSE Some(now - fallback_lookback_days)

\* C10: with tracking enabled, the since boundary a repository resolves is
\* its repository-qualified entry if present and parseable, otherwise the
\* unqualified entry if present and parseable, otherwise now minus
\* fallback_lookback_days.
C10_ResolutionOrder ==
    [][\A r \in Repos : (config.since_last_run /\ since[r] = None /\ since'[r] # None)
          => since'[r] = ResolutionOrder(store, r, clock)]_vars

\* both entries are present and differ, and the repository-qualified one wins
C10_Witness ==
    \E r \in Repos :
        /\ phase = "gather"
        /\ config.since_last_run
        /\ store[RepoKey(r)][1] = "iso"
        /\ store[GlobalKey][1] = "iso"
        /\ store[RepoKey(r)][2] # store[GlobalKey][2]
        /\ since[r] = Some(store[RepoKey(r)][2])

\* C11: with tracking disabled, every since boundary is now minus
\* fallback_lookback_days whatever the store holds, every result has a null
\* completion time, and the run neither builds updates nor writes the store.
C11_TrackingDisabled ==
    ~config.since_last_run =>
        /\ \A r \in Repos : since[r] # None => since[r] = Some(clock - fallback_lookback_days)
        /\ \A r \in DOMAIN results : results[r].completion_time = None
        /\ DOMAIN last_run_updates = {}
        /\ set_calls = 0
        /\ phase # "idle" => store = hist.store_before

\* a run without tracking returned, over a store that holds entries, with
\* summaries and the fallback boundary for every repository
C11_Witness ==
    /\ ~config.since_last_run
    /\ phase = "returned"
    /\ store[RepoKey(1)] = Isoformat(-1)
    /\ store[GlobalKey] = Isoformat(-2)
    /\ DOMAIN results = Repos
    /\ \A r \in Repos : since[r] = Some(clock - fallback_lookback_days)
    /\ \E r \in Repos : results[r].summary = SummaryText

\* C12 as stated: a get_last_run_time call on a key that is absent or whose
\* stored value is not a timestamp returns None, and does not raise.
C12_NullWithoutRaising ==
    (got.outcome # "none" /\ got.stored[1] # "iso")
        => (got.outcome = "returned" /\ got.value = None)

\* C13: a set_multiple_last_run_times call that completes writes the file
\* once; what it writes holds the new ISO timestamp under every key of
\* updates and, under every other key, what the file held before the write;
\* nothing else changes the file.
C13_MergeAndWriteOnce ==
    /\ [][\A c \in Callers : (caller[c].pc = "writing" /\ caller'[c].pc = "done")
            => /\ caller'[c].writes = 1
               /\ \A k \in StoreKeys :
                     store'[k] = IF k \in DOMAIN caller[c].updates
                                 THEN <<"iso", caller[c].updates[k]>>
                                 ELSE IF store = Corrupt THEN Absent ELSE store[k]]_vars
    /\ [][store' # store => \E c \in Callers : caller[c].pc = "writing"]_vars
    /\ [](\A c \in Callers : caller[c].writes = IF caller[c].pc = "done" THEN 1 ELSE 0)

\* a call updated the second repository and kept the other entries
C13_Witness ==
    \E c \in Callers :
        /\ caller[c].pc = "done"
        /\ DOMAIN caller[c].updates = {RepoKey(2)}
        /\ store[RepoKey(2)] = Isoformat(c)
        /\ store[RepoKey(1)] = Isoformat(-1)
        /\ store[GlobalKey] = Isoformat(-2)

\* C14: at most one set_multiple_last_run_times call is between its read and
\* its write, a call that finds the lock taken waits, and when every call
\* has completed each updated key holds the timestamp of one of the calls
\* that updated it, the other entries being those of the initial file.
C14_NoLostUpdate ==
    /\ Cardinality({c \in Callers : caller[c].pc \in {"reading", "writing"}}) <= 1
    /\ \A c \in Callers : caller[c].pc \in {"reading", "writing"} => lock = Some(c)
    /\ (\A c \in Callers : caller[c].pc = "done") =>
          \A c \in Callers : \A k \in DOMAIN caller[c].updates :
              store[k] \in {Isoformat(caller[d].updates[k]) :
                               d \in {e \in Callers : k \in DOMAIN caller[e].updates}}

\* two calls overlapped, the second waited, and the file holds both updates
C14_Witness ==
    /\ \A c \in Callers : caller[c].pc = "done"
    /\ caller[2].waited
    /\ DOMAIN caller[1].updates = {RepoKey(1)}
    /\ DOMAIN caller[2].updates = {RepoKey(2)}
    /\ store[RepoKey(1)] = Isoformat(1)
    /\ store[RepoKey(2)] = Isoformat(2)

\* the nodes of the given pages, one page after the other
RECURSIVE NodesOf(_)
NodesOf(pages) ==
    IF pages = << >> THEN << >> ELSE Head(pages).nodes \o NodesOf(Tail(pages))

\* C15: _paginate_graphql never issues more than max_pages requests, and
\* against a server whose every page reports hasNextPage=true it returns
\* after exactly max_pages requests.
C15_PageCeiling ==
    /\ Len(pg.requests) <= pg.max_pages
    /\ (pg.pc = "returned" /\ \A j \in DOMAIN pg.pages : pg.pages[j].hasNextPage)
          => Len(pg.requests) = pg.max_pages

\* the default ceiling reached against a server that always has a next page
C15_Witness ==
    /\ pg.pc = "returned"
    /\ pg.max_pages = default_max_pages
    /\ Len(pg.requests) = default_max_pages
    /\ \A j \in DOMAIN pg.pages : pg.pages[j].hasNextPage

\* C16: the accumulator, and the value returned, is the concatenation in
\* request order of the nodes of the pages fetched; the first request carries
\* a null cursor and each later one the endCursor of the page before it; every
\* page that was followed by a request reported hasNextPage=true.
C16_OrderedConcatenation ==
    /\ pg.all_nodes = NodesOf(pg.pages)
    /\ pg.pc = "returned" => pg.result = << NodesOf(pg.pages) >>
    /\ \A j \in DOMAIN pg.requests :
          pg.requests[j] = IF j = 1 THEN None ELSE pg.pages[j - 1].endCursor
    /\ \A j \in DOMAIN pg.pages : j < Len(pg.requests) => pg.pages[j].hasNextPage

\* three pages with nodes were fetched, the last one reporting no next page
C16_Witness ==
    /\ pg.pc = "returned"
    /\ Len(pg.pages) = 3
    /\ Len(pg.requests) = 3
    /\ ~pg.pages[3].hasNextPage
    /\ pg.result = << << <<1, 1>>, <<2, 1>>, <<3, 1>> >> >>
    /\ pg.requests = << None, Some(1), Some(2) >>

\* C17: a call that returns has warned exactly when it fetched max_pages
\* pages and the last of them reported hasNextPage=true; it then returns the
\* nodes of the fetched pages.
C17_TruncationWarning ==
    pg.pc = "returned" =>
        /\ pg.result # None
        /\ pg.warned = (/\ Len(pg.pages) = pg.max_pages
                        /\ pg.pages[Len(pg.pages)].hasNextPage)

\* the ceiling cut the pagination short: a warning, and the nodes fetched
C17_Witness ==
    /\ pg.pc = "returned"
    /\ pg.warned
    /\ Len(pg.pages) = pg.max_pages
    /\ pg.pages[Len(pg.pages)].hasNextPage
    /\ pg.result = << NodesOf(pg.pages) >>
    /\ pg.result # << << >> >>

\* C18: once a request has raised, the call has ended by raising: the failed
\* request is the last one issued, and nothing is returned, whatever the
\* pages fetched before.
C18_ErrorPropagates ==
    /\ Len(pg.requests) > Len(pg.pages) =>
          /\ pg.pc = "raised"
          /\ Len(pg.requests) = Len(pg.pages) + 1
          /\ pg.result = None
    /\ pg.pc = "raised" => Len(pg.requests) > Len(pg.pages)

\* the third request raised after two pages with nodes
C18_Witness ==
    /\ pg.pc = "raised"
    /\ Len(pg.requests) = 3
    /\ pg.all_nodes = << <<1, 1>>, <<2, 1>> >>
    /\ pg.result = None

\* the environment variable holds the text of an integer
EnvIsInteger(env) == env # EnvUnset /\ env[1] = "int"

\* C19: _get_max_concurrent_repos returns the explicit override when there is
\* one, else the integer of GHSUM_CONCURRENT_REPOS when it holds one, else
\* the configured value; a text that is no integer is ignored.
C19_ResolutionPrecedence ==
    resolved.by = "app" =>
        /\ resolved.override # None => resolved.value = resolved.override[1]
        /\ (resolved.override = None /\ EnvIsInteger(resolved.env))
              => resolved.value = resolved.env[2]
        /\ (resolved.override = None /\ ~EnvIsInteger(resolved.env))
              => resolved.value = resolved.configured

\* an explicit override won over an integer in the environment
C19_Witness ==
    /\ resolved.by = "app"
    /\ resolved.override # None
    /\ EnvIsInteger(resolved.env)
    /\ resolved.env[2] # resolved.override[1]
    /\ resolved.value = resolved.override[1]

\* C20 as stated: in run_report an explicit max_concurrent_repos argument
\* wins over GHSUM_CONCURRENT_REPOS, which wins over the configured value.
C20_RunReportPrecedence ==
    resolved.by = "run_report" =>
        /\ resolved.override # None => resolved.value = resolved.override[1]
        /\ (resolved.override = None /\ EnvIsInteger(resolved.env))
              => resolved.value = resolved.env[2]
        /\ (resolved.override = None /\ ~EnvIsInteger(resolved.env))
              => resolved.value = resolved.configured

\* the filter specs reached the end of the merge
Merged == merging.pc \in {"merged", "remerged"}

\* C21 as stated: after validation and _merge_filters every field is the
\* repository's value when the repository sets it and the global value
\* when only the global spec sets it.
C21_OverridePrecedence ==
    (Merged /\ merging.validated) =>
        \A f \in FilterFields :
            /\ f \in merging.parsed_repo.fields_set
                  => merging.merged.values[f] = merging.parsed_repo.values[f]
            /\ (f \in merging.parsed_global.fields_set /\ f \notin merging.parsed_repo.fields_set)
                  => merging.merged.values[f] = merging.parsed_global.values[f]

\* C22: merging a spec with itself yields an equal spec, merging the result
\* with the same repository spec again changes nothing, and the global
\* spec passed in is left as it was.
C22_Idempotent ==
    /\ (Merged /\ merging.filters.values = merging.global_filters.values)
          => merging.merged.values = merging.global_filters.values
    /\ merging.pc = "remerged" => merging.again.values = merging.merged.values
    /\ merging.pc # "none" => merging.global_filters = merging.parsed_global

\* a spec that sets a field was merged with itself, and the result merged again
C22_Witness ==
    /\ merging.pc = "remerged"
    /\ merging.parsed_repo = merging.parsed_global
    /\ merging.parsed_global.fields_set # {}
    /\ merging.again.values = merging.parsed_global.values

\* the commits of C23: not before since, by the author, headline not excluded
C23_Passes(c) ==
    /\ ~(c.date < query.since)
    /\ query.filters.author # None => <<c.name>> = query.filters.author
    /\ query.filters.exclude_commit_messages_regex # None
          => ~ReSearch(query.filters.exclude_commit_messages_regex, c.messageHeadline)

\* C23: get_commits returns, in fetched order, exactly the fetched commits
\* that are not strictly before since, are by filter.author when it is set,
\* and whose headline has no match of the exclusion regex when it is set.
C23_CommitsKept ==
    (query.pc # "none" /\ query.kind = "commits" /\ query.requested) =>
        /\ query.pc = "returned"
        /\ LET passing == SelectSeq(query.fetched, C23_Passes) IN
           query.result = [j \in DOMAIN passing |->
                              [author |-> passing[j].name, message |-> passing[j].messageHeadline,
                               date |-> passing[j].date]]

\* a commit exactly at since was kept, an excluded one dropped, order kept
C23_Witness ==
    /\ query.pc = "returned"
    /\ query.kind = "commits"
    /\ query.filters.exclude_commit_messages_regex = Pattern
    /\ query.fetched = <<[date |-> QuerySince, name |-> "a", messageHeadline |-> <<"f">>],
                         [date |-> QuerySince + 1, name |-> "a", messageHeadline |-> <<"f", "v">>]>>
    /\ query.result = <<[date |-> QuerySince, author |-> "a", message |-> <<"f">>]>>

\* a get_* call of the given kind asked the server and returned
Returned(kind) == query.pc = "returned" /\ query.kind = kind /\ query.requested

\* the timestamp of a pull request node that since_filter_type selects
C24_ComparedDate(n) ==
    IF query.filters.since_filter_type = "updated" THEN n.updatedAt ELSE n.createdAt

\* a pull request node whose selected timestamp is not before since
C24_NotBefore(n) == ~(C24_ComparedDate(n) < query.since)

\* C24: get_pull_requests compares updatedAt with since under "updated" and
\* createdAt under "created": no returned pull request has the selected
\* timestamp before since, and with no other predicate set exactly the
\* fetched ones whose selected timestamp is not before since are returned.
C24_SinceFilterType ==
    Returned("pull_requests") =>
        /\ \A x \in Range(query.result) :
              /\ query.filters.since_filter_type = "updated" => x.updated_at >= query.since
              /\ query.filters.since_filter_type = "created" => x.created_at >= query.since
        /\ (/\ query.filters.author = None
            /\ query.filters.state = None
            /\ query.filters.labels = None
            /\ query.filters.exclude_pull_request_titles_regex = None)
              => Len(query.result) = Len(SelectSeq(query.fetched, C24_NotBefore))

\* a pull request created before since and updated after it was returned
\* under "updated"
C24_Witness ==
    /\ Returned("pull_requests")
    /\ query.filters.since_filter_type = "updated"
    /\ \E x \in Range(query.result) : x.created_at < query.since /\ x.updated_at > query.since

\* the node passes the label predicate, and for a pull request the date one
C25_LabelsContained(n) ==
    /\ query.filters.labels # None
          => \A j \in DOMAIN query.filters.labels : query.filters.labels[j] \in n.labels
    /\ query.kind = "pull_requests" => C24_NotBefore(n)

\* C25: with required labels set, a pull request or issue is returned only
\* if every required label is among its labels; with no other predicate
\* set, exactly the items that have them all are returned, and every item
\* when no label is required.
C25_LabelContainment ==
    (Returned("pull_requests") \/ Returned("issues")) =>
        /\ query.filters.labels # None
              => \A x \in Range(query.result) :
                    \A j \in DOMAIN query.filters.labels : query.filters.labels[j] \in x.labels
        /\ (/\ query.filters.author = None
            /\ query.kind = "pull_requests" => query.filters.state = None
            /\ query.kind = "issues" => query.filters.milestone = None
            /\ query.kind = "issues" => query.filters.assignee = None
            /\ query.kind = "pull_requests"
                  => query.filters.exclude_pull_request_titles_regex = None
            /\ query.kind = "issues" => query.filters.exclude_issue_titles_regex = None)
              => Len(query.result) = Len(SelectSeq(query.fetched, C25_LabelsContained))

\* an issue labelled bug and p1 passed the required label bug
C25_Witness ==
    /\ Returned("issues")
    /\ query.filters.labels = <<"bug">>
    /\ \E x \in Range(query.result) : x.labels = {"bug", "p1"}

\* C26 as stated: with an author filter every returned pull request or issue
\* has that author; with a milestone or assignee filter an issue without
\* that milestone or assignee is not returned.
C26_EqualityRejectsMismatch ==
    /\ ((Returned("pull_requests") \/ Returned("issues")) /\ query.filters.author # None)
          => \A x \in Range(query.result) : x.author = query.filters.author[1]
    /\ (/\ Returned("issues")
        /\ query.filters.milestone # None
        /\ \A n \in Range(query.fetched) : n.milestone # query.filters.milestone)
          => query.result = << >>
    /\ (/\ Returned("issues")
        /\ query.filters.assignee # None
        /\ \A n \in Range(query.fetched) :
              n.assignees = KeyMissing \/ query.filters.assignee[1] \notin n.assignees[2])
          => query.result = << >>

\* C27: get_issues puts since into the search query and compares no
\* timestamp itself, so with no predicate set every fetched issue is
\* returned, also one created before since; get_discussions returns no
\* discussion created before since.
C27_IssuesNotDated ==
    /\ Returned("issues")
          => /\ query.search_query = <<"is:issue", "created:>", query.since>>
             /\ (/\ query.filters.author = None
                 /\ query.filters.milestone = None
                 /\ query.filters.labels = None
                 /\ query.filters.assignee = None
                 /\ query.filters.exclude_issue_titles_regex = None)
                   => Len(query.result) = Len(query.fetched)
    /\ Returned("discussions")
          => \A x \in Range(query.result) : x.created_at >= query.since

\* an issue created before since was returned
C27_Witness ==
    /\ Returned("issues")
    /\ \E x \in Range(query.result) : x.created_at < query.since

\* C28: a data type disabled on a repository is never asked from the remote
\* API and its list in the dataset is empty; the dataset _fetch_repo_data
\* returns has the keys repo, commits, pull_requests, issues and
\* discussions whatever is enabled or fails.
C28_DisabledNotRequested ==
    \A r \in Repos :
        /\ requests[r] \subseteq config.include[r]
        /\ pc[r] \in {"summarize", "save"} =>
              /\ DOMAIN repo_data[r] = DataTypes \cup {"repo"}
              /\ \A key \in DataTypes \ config.include[r] : repo_data[r][key] = << >>

\* a repository with two data types enabled was fetched, one fetch failed
C28_Witness ==
    /\ pc[1] = "summarize"
    /\ config.include[1] = {"commits", "pull_requests"}
    /\ requests[1] = {"commits", "pull_requests"}
    /\ fetch_errors[1] = {"commits"}
    /\ repo_data[1]["issues"] = << >>
    /\ repo_data[1]["pull_requests"] # << >>

\* C29: a summarizer that raises for a repository gives that repository the
\* failure result (null completion time, empty summary, empty dataset) and
\* touches no other repository; a failed repository gets no state update
\* and no cache entry; with no summarizer the summary is the empty string
\* and the repository goes on to its outputs.
C29_SummarizerFailure ==
    /\ [](\A r \in DOMAIN results :
             results[r] = FailureResult(r) =>
                 /\ GetRunKey(ConfigPath, Some(r)) \notin DOMAIN last_run_updates
                 /\ \A j \in DOMAIN cache_entries : cache_entries[j].id[1] # r)
    /\ [][\A r \in Repos :
            (pc[r] = "summarize" /\ pc'[r] # "summarize") =>
                /\ pc'[r] \in {"save", "done"}
                /\ pc'[r] = "done" => /\ args.summarizer
                                      /\ results'[r] = FailureResult(r)
                /\ pc'[r] = "save" => /\ r \notin DOMAIN results'
                                      /\ summary'[r] = IF args.summarizer THEN SummaryText ELSE ""
                /\ \A q \in Repos \ {r} :
                      /\ pc'[q] = pc[q]
                      /\ summary'[q] = summary[q]
                      /\ repo_data'[q] = repo_data[q]
                      /\ q \in DOMAIN results => results'[q] = results[q]]_vars

\* with a summarizer, repository 2 failed and got no state update and no
\* cache entry, repositories 1 and 3 completed with their summaries
C29_Witness ==
    /\ phase = "cache"
    /\ args.summarizer
    /\ {1, 2, 3} \subseteq DOMAIN results
    /\ results[2] = FailureResult(2)
    /\ results[1].completion_time # None /\ results[1].summary = SummaryText
    /\ results[3].completion_time # None /\ results[3].summary = SummaryText
    /\ DOMAIN last_run_updates = {GetRunKey(ConfigPath, Some(1)), GetRunKey(ConfigPath, Some(3))}
    /\ Len(cache_entries) = 2

\* C30: when run has exited, by returning or through typer.Exit, no session
\* opened by it is still open.
C30_SessionClosed ==
    phase \in {"returned", "exited"} => session # "open"

\* run left through typer.Exit after its tasks had produced results, and
\* the session it had opened is closed
C30_Witness ==
    /\ phase = "exited"
    /\ DOMAIN results # {}
    /\ session = "closed"

\* the tasks inside the request and retry section of generate_summary
InRequestSection == {t \in Tasks : client.task[t].pc = "requesting"}
MaxAttempts == IF client.retries < 1 THEN 1 ELSE client.retries

\* C31 as stated: generate_summary makes at most retries attempts.
C31_AtMostRetriesAttempts ==
    client.pc = "ready" => \A t \in Tasks : client.task[t].calls <= client.retries

\* C31: generate_summary makes at most max(1, retries) attempts; when it
\* returns, it returns the content of the attempt it just made, the first
\* one that succeeded; an attempt with no choices or a null content is a
\* failed attempt; it raises when every one of its max(1, retries) attempts
\* failed, and only then.
C31_Retries ==
    client.pc = "ready" =>
        \A t \in Tasks :
            LET task == client.task[t] IN
            /\ task.calls <= MaxAttempts
            /\ task.pc \in {"returned", "done"} =>
                  /\ task.last \in Contents
                  /\ task.result = Some(task.last)
            /\ task.last \in Failures => task.pc \in {"requesting", "raised", "failed"}
            /\ task.pc = "requesting" => task.calls < MaxAttempts
            /\ task.pc \in {"raised", "failed"} =>
                  /\ task.calls = MaxAttempts
                  /\ task.last \in Failures

\* a call failed once and then returned the content of its second attempt
C31_Witness ==
    /\ client.pc = "ready"
    /\ \E t \in Tasks : /\ client.task[t].pc = "returned"
                        /\ client.task[t].calls = 2
                        /\ client.task[t].result = Some("text")

\* C32: at most max_concurrent generate_summary calls of the client are in
\* the request and retry section, and the permits in use are those of the
\* calls inside: a call that returned or raised has given its permit back.
C32_LLMConcurrencyLimit ==
    client.pc = "ready" =>
        /\ Cardinality(InRequestSection) <= client.max_concurrent
        /\ client.semaphore + Cardinality(InRequestSection) = client.max_concurrent

\* the section is full while a task waits for a permit, after a call that
\* raised gave its permit back
C32_Witness ==
    /\ client.pc = "ready"
    /\ client.semaphore = 0
    /\ Cardinality(InRequestSection) = client.max_concurrent
    /\ \E t \in Tasks : client.task[t].pc = "processing"

\* C40: with positive limits, a task that holds a repository permit and
\* waits for generate_summary eventually gets a permit of the client.
C40_NoDeadlock ==
    \A t \in Tasks :
        (client.pc = "ready" /\ client.task[t].pc = "processing")
            ~> (client.pc = "ready" /\ client.task[t].pc \in {"requesting", "returned", "raised"})

\* a task holds a repository permit and waits while another task holds the
\* only permit of the client
C40_Witness ==
    /\ client.pc = "ready"
    /\ client.max_concurrent = 1
    /\ client.semaphore = 0
    /\ \E t \in Tasks, u \in Tasks : /\ client.task[t].pc = "processing"
                                     /\ client.task[u].pc = "requesting"

\* the ids of the cache file
CachedIds == IdsOf(sc.file)

\* C33 as stated: add_batch returns the number of entries it actually
\* added, the entries of the cache whose id was not cached before the call.
C33_ReturnsEntriesAdded ==
    (sc.pc = "ready" /\ sc.only_add_batch /\ sc.op = "add_batch")
        => sc.returned = Cardinality(CachedIds \ sc.cached_ids)

\* C33: after add_batch calls on an empty cache no two cached entries share
\* an id; add_batch returns the number of distinct submitted ids that were
\* not cached, whether or not the pruning to max_entries keeps them, and
\* returns 0 without writing when every submitted id was cached.
C33_UniqueIds ==
    (sc.pc = "ready" /\ sc.only_add_batch) =>
        /\ \A i, j \in DOMAIN sc.file : sc.file[i].id = sc.file[j].id => i = j
        /\ sc.op = "add_batch" =>
              /\ sc.returned = Cardinality(sc.submitted_ids \ sc.cached_ids)
              /\ sc.wrote <=> sc.returned > 0
              /\ sc.submitted_ids \subseteq sc.cached_ids => (sc.returned = 0 /\ ~sc.wrote)
              /\ CachedIds \subseteq sc.cached_ids \cup sc.submitted_ids

\* a call that submitted only cached ids returned 0 and wrote nothing
C33_Witness ==
    /\ sc.pc = "ready"
    /\ sc.only_add_batch
    /\ sc.op = "add_batch"
    /\ sc.submitted_ids # {}
    /\ sc.submitted_ids \subseteq sc.cached_ids
    /\ sc.returned = 0
    /\ ~sc.wrote
    /\ Len(sc.file) = 2

\* C34: after a write of save_all, called directly or by add_batch, the
\* cache holds min(offered, max_entries) entries, newest first, and no
\* entry left out is newer than an entry kept.
C34_NewestKept ==
    (sc.pc = "ready" /\ sc.wrote) =>
        /\ Len(sc.file) <= sc.max_entries
        /\ Len(sc.file) = Min(sc.offered, sc.max_entries)
        /\ Len(sc.file) + Len(sc.pruned) = sc.offered
        /\ \A i, j \in DOMAIN sc.file : i < j => sc.file[i].timestamp >= sc.file[j].timestamp
        /\ \A i \in DOMAIN sc.file : \A j \in DOMAIN sc.pruned :
              sc.file[i].timestamp >= sc.pruned[j].timestamp

\* add_batch on a full cache kept the newer summary it was given and
\* pruned an older one that was cached
C34_Witness ==
    /\ sc.pc = "ready"
    /\ sc.wrote
    /\ sc.op = "add_batch"
    /\ Len(sc.file) = sc.max_entries
    /\ sc.pruned # << >>
    /\ sc.pruned[1].id \in sc.cached_ids
    /\ sc.file[1].id \notin sc.cached_ids
    /\ sc.file[1].timestamp > sc.pruned[1].timestamp

\* C35 as stated: across runs of one process, overlapping runs included,
\* the persisted timestamp of a repository key never decreases.
C35_TimestampNeverDecreases ==
    [][(store[RepoKey(1)][1] = "iso" /\ store'[RepoKey(1)][1] = "iso")
          => store'[RepoKey(1)][2] >= store[RepoKey(1)][2]]_vars

\* job j ran twice, the second run past its fetch, and no other job ran
ConsecutiveRuns(j) ==
    /\ jobs.pc = "started"
    /\ jobs.job[j].prev.ran
    /\ jobs.job[j].pc \in {"summarize", "gathered"}
    /\ \A other \in Jobs \ {j} : jobs.job[other] = JobIdle

\* C36 as stated: between two consecutive successful runs of a repository,
\* every commit of the remote history dated at or after the since boundary
\* of run k is returned by run k or by run k+1.
C36_NoActivitySkipped ==
    \A j \in Jobs :
        ConsecutiveRuns(j) =>
            \A date \in jobs.job[j].remote :
                ~(date < jobs.job[j].prev.since[1])
                    => date \in jobs.job[j].prev.returned \cup jobs.job[j].returned

\* the repositories whose _process_repository call reached its return
ReachedEnd == {r \in DOMAIN results : results[r].repo_data # EmptyDict}

\* C37: with tracking enabled, every repository whose _process_repository
\* call reached its end has a completion time, however many of its fetches
\* raised; the run puts that time in last_run_updates, and when the run has
\* made its state commit the store holds it under the key of the repository.
C37_CompletionDespiteFetchFailures ==
    config.since_last_run =>
        \A r \in ReachedEnd :
            /\ results[r].completion_time # None
            /\ phase \in {"cache", "rss", "commit"} =>
                  /\ RepoKey(r) \in DOMAIN last_run_updates
                  /\ last_run_updates[RepoKey(r)] = results[r].completion_time[1]
            /\ phase = "returned" =>
                  store[RepoKey(r)] = Isoformat(results[r].completion_time[1])

\* every enabled fetch of the first repository raised, and the run moved
\* its stored boundary from the earlier instant to the completion instant
C37_Witness ==
    /\ phase = "returned"
    /\ config.since_last_run
    /\ config.include[1] # {}
    /\ fetch_errors[1] = config.include[1]
    /\ 1 \in ReachedEnd
    /\ results[1].repo_data["commits"] = << >>
    /\ hist.store_before # << >>
    /\ hist.store_before[RepoKey(1)] = Isoformat(-1)
    /\ store[RepoKey(1)] = Isoformat(clock)

\* C38: the store changes in one step only, the state commit that ends the
\* run; when set_multiple_last_run_times is called the cache holds the
\* entries of the run and the feed has been regenerated from the cache; a
\* cache addition or an RSS regeneration that raises ends the run with
\* typer.Exit(1), without a call and with the store as it was before the run.
C38_CommitIsLast ==
    /\ [](set_calls > 0 =>
            /\ phase \in {"returned", "exited"}
            /\ \A j \in DOMAIN cache_entries :
                  \E i \in DOMAIN cache : cache[i].id = cache_entries[j].id
            /\ (config.rss /\ cache # << >>) => feed = GenerateFeedFromSummaries(cache))
    /\ [](phase \in {"cache", "rss", "commit"} => (set_calls = 0 /\ store = hist.store_before))
    /\ [][(store' # store \/ set_calls' # set_calls)
             => (phase = "commit" /\ phase' \in {"returned", "exited"})]_vars
    /\ [][(phase \in {"cache", "rss"} /\ phase' \notin {"cache", "rss", "commit"})
             => /\ phase' = "exited"
                /\ set_calls' = 0
                /\ store' = hist.store_before]_vars

\* the cache addition succeeded, the RSS regeneration raised: the run ended
\* without a state commit although it had completion times to commit
C38_Witness ==
    /\ phase = "exited"
    /\ config.rss
    /\ cache # << >>
    /\ feed = << >>
    /\ DOMAIN last_run_updates # {}
    /\ set_calls = 0
    /\ hist.store_before # << >>
    /\ hist.store_before[RepoKey(1)] = Isoformat(-1)
    /\ store = hist.store_before

\* C39 as stated: a get_last_run_time call made while a
\* set_multiple_last_run_times call is writing, for a key that held a
\* timestamp before the write, returns a timestamp: it neither returns None
\* nor raises.
C39_ReadSeesBeforeOrAfter ==
    (got.outcome # "none" /\ got.overlapped /\ got.held[1] = "iso")
        => (got.outcome = "returned" /\ got.value # None)

====
